---- MODULE Spec2Model ----
(***************************************************************************)
(* Model of the finance tracker (src/app.py): the ledger document, the     *)
(* MongoDB collection that persists it, the wall clock, the monthly        *)
(* balance-update engine run by load_data, and the add/update/delete       *)
(* request handlers.                                                       *)
(***************************************************************************)
EXTENDS Integers, Sequences, FiniteSets, TLC

VARIABLES
    today,   \* datetime.now().date(): [year, month, day]
    store,   \* the MongoDB collection: the sequence of its documents
    data,    \* the process-wide `data` document (app.py:288)
    last,    \* the operation handled last: its inputs and its outcome
    nreq,    \* number of HTTP requests handled so far
    running  \* the requests the server's threads are handling: their locals

vars == <<today, store, data, last, nreq, running>>

----------------------------------------------------------------------------
\* Bounds of the model

\* days the clock may advance in Spec
MaxDays == 4
\* days the clock may advance in SpecLoads
HorizonDays == 35
\* HTTP requests handled in one behaviour of Spec
MaxReqs == 1
\* HTTP requests handled in one behaviour of SpecCrud
MaxCrud == 2
\* requests handled in SpecTotals
MaxTot == 1
\* requests handled in SpecApi
MaxApi == 2
\* requests the server handles at the same time in SpecRace
MaxThreads == 2

\* the months of the calendar runs: CalYears years from CalFirstYear, each run
\* starting on day CalFirstDay of a month, before every possible salary date
CalFirstYear == 2000
CalYears == 28
CalFirstDay == 22

\* requests on income and debts between the loads of the engine
MaxEng == 1

\* requests with amounts float() does not turn into a finite number
MaxNum == 2

\* requests on purchases and one_time_inflow in SpecLedger
MaxLedger == 2
\* days the clock may advance in SpecLedger: to the salary date of the month
MaxLedgerDays == 1

\* requests handled in SpecRequests
MaxHttp == 1

\* requests on debts between the loads of SpecDebts
MaxDebtReqs == 1

\* requests handled in SpecFrame
MaxFrame == 2

\* largest offset get_last_working_day is called with in SpecOffsets: more
\* than the Monday-to-Friday days of any month
MaxOffset == 24

\* first day of every behaviour: Sunday 28 December 2025 (the salary date of
\* that month is Monday 29, its last day Wednesday 31)
StartDate == [year |-> 2025, month |-> 12, day |-> 28]

----------------------------------------------------------------------------
\* Python values

\* Python's None, where a string or a date is expected
NoneVal == "None"
NoDate == [year |-> 0, month |-> 0, day |-> 0]

\* dict.get(key, default)
Get(item, f, dflt) == IF f \in DOMAIN item THEN item[f] ELSE dflt

\* Python floats: the finite ones are the integers; the three non-finite
\* values float() can yield are encoded outside the range the finite ones take
PosInf == 1000000000
NegInf == 0 - PosInf
NaN == 2000000000

\* whether a float is neither nan nor an infinity
IsFinite(x) == x # NaN /\ x # PosInf /\ x # NegInf

\* a + b on floats: nan absorbs, an infinity absorbs every finite value, and
\* inf + -inf is nan
FAdd(a, b) ==
    IF a = NaN \/ b = NaN THEN NaN
    ELSE IF ~IsFinite(a) THEN (IF ~IsFinite(b) /\ b # a THEN NaN ELSE a)
    ELSE IF ~IsFinite(b) THEN b
    ELSE a + b

\* -a on floats
FNeg(a) == IF a = NaN THEN NaN ELSE 0 - a

\* a - b on floats
FSub(a, b) == FAdd(a, FNeg(b))

\* a >= b on floats: every comparison with nan is False
FGE(a, b) == a # NaN /\ b # NaN /\ a >= b

\* float(value) of the request values the model sends: the numerals parse,
\* and so do 'nan' and 'inf'; every other string raises ValueError
FloatTable == [s \in {"0", "5", "9", "-7", "nan", "inf"} |->
                 CASE s = "0" -> 0 [] s = "5" -> 5 [] s = "9" -> 9 [] s = "-7" -> 0 - 7
                   [] s = "nan" -> NaN [] s = "inf" -> PosInf]
FloatOk(v) == v \in DOMAIN FloatTable
FloatOf(v) == FloatTable[v]

\* max(a, b): b when b > a, else a
Max(a, b) == IF b # NaN /\ a # NaN /\ b > a THEN b ELSE a

RECURSIVE SumField(_, _)
\* sum(item.get(f, 0) for item in items)
SumField(items, f) ==
    IF items = <<>> THEN 0
    ELSE FAdd(Get(Head(items), f, 0), SumField(Tail(items), f))

----------------------------------------------------------------------------
\* Calendar (datetime.date, calendar.monthrange, timedelta)

IsLeap(y) == (y % 4 = 0 /\ y % 100 # 0) \/ y % 400 = 0

\* calendar.monthrange(year, month)[1]
DaysInMonth(y, m) ==
    IF m = 2 THEN (IF IsLeap(y) THEN 29 ELSE 28)
    ELSE IF m \in {4, 6, 9, 11} THEN 30 ELSE 31

RECURSIVE DaysBeforeMonth(_, _)
DaysBeforeMonth(y, m) ==
    IF m = 1 THEN 0 ELSE DaysBeforeMonth(y, m - 1) + DaysInMonth(y, m - 1)

\* date.toordinal(): 1 is 0001-01-01
Ordinal(d) ==
    LET y == d.year - 1
    IN 365 * y + (y \div 4) - (y \div 100) + (y \div 400)
       + DaysBeforeMonth(d.year, d.month) + d.day

\* date.weekday(): Monday is 0, Sunday is 6
Weekday(d) == (Ordinal(d) + 6) % 7

\* d + timedelta(days=1)
NextDay(d) ==
    IF d.day < DaysInMonth(d.year, d.month) THEN [d EXCEPT !.day = d.day + 1]
    ELSE IF d.month < 12 THEN [year |-> d.year, month |-> d.month + 1, day |-> 1]
    ELSE [year |-> d.year + 1, month |-> 1, day |-> 1]

\* d - timedelta(days=1)
PrevDay(d) ==
    IF d.day > 1 THEN [d EXCEPT !.day = d.day - 1]
    ELSE IF d.month > 1
         THEN [year |-> d.year, month |-> d.month - 1,
               day |-> DaysInMonth(d.year, d.month - 1)]
    ELSE [year |-> d.year - 1, month |-> 12, day |-> 31]

RECURSIVE PlusDays(_, _)
\* d + timedelta(days=n), n >= 0
PlusDays(d, n) == IF n = 0 THEN d ELSE PlusDays(NextDay(d), n - 1)

\* date comparison a >= b
DateGE(a, b) == Ordinal(a) >= Ordinal(b)

Pad2(n) == IF n < 10 THEN "0" \o ToString(n) ELSE ToString(n)

\* strftime('%Y-%m')
MonthKey(d) == ToString(d.year) \o "-" \o Pad2(d.month)

\* strftime('%Y-%m-%d')
DateStr(d) == MonthKey(d) \o "-" \o Pad2(d.day)

\* is_working_day
IsWorkingDay(d) == Weekday(d) < 5

RECURSIVE LastWorkingDayLoop(_, _, _, _)
\* the while loop of get_last_working_day
LastWorkingDayLoop(day_to_check, working_days_count, offset, month) ==
    IF ~(working_days_count < offset /\ day_to_check.month = month) THEN NoDate
    ELSE IF IsWorkingDay(day_to_check)
         THEN IF working_days_count + 1 = offset THEN day_to_check
              ELSE LastWorkingDayLoop(PrevDay(day_to_check), working_days_count + 1,
                                      offset, month)
    ELSE LastWorkingDayLoop(PrevDay(day_to_check), working_days_count, offset, month)

\* get_last_working_day
GetLastWorkingDay(year, month, offset) ==
    LastWorkingDayLoop([year |-> year, month |-> month,
                        day |-> DaysInMonth(year, month)], 0, offset, month)

\* get_salary_date with the second last working day
GetSalaryDateSecondLast(year, month) == GetLastWorkingDay(year, month, 2)

\* the offset get_salary_date passes
SalaryOffset == 3

\* get_salary_date
GetSalaryDate(year, month) == GetLastWorkingDay(year, month, SalaryOffset)

\* the span timedelta(days=32) that leaves the month from its first day
NextMonthSpan == 32

\* LastDayOfMonth with a span of 28 days, which leaves no month but a short
\* February
LastDayOfMonthShortSpan(d) ==
    LET next_month_start == PlusDays([d EXCEPT !.day = 1], 28)
    IN PrevDay([next_month_start EXCEPT !.day = 1])

\* last_day_of_month of check_and_update_balance
LastDayOfMonth(d) ==
    LET next_month_start == PlusDays([d EXCEPT !.day = 1], NextMonthSpan)
    IN PrevDay([next_month_start EXCEPT !.day = 1])

----------------------------------------------------------------------------
\* The ledger document

\* the metadata a fresh document carries
NoMetadata == [last_balance_update_month |-> NoneVal,
               last_debt_payment_month |-> NoneVal]

\* get_default_data; `date` is datetime.now() at the call
DefaultData(date) ==
    [income |-> <<[id |-> "inc1", name |-> "Monthly Salary", amount |-> 116938],
                  [id |-> "inc2", name |-> "Current Account Balance", amount |-> 45000]>>,
     one_time_inflow |->
                <<[id |-> "oti1", name |-> "Stock Sale Profit", amount |-> 12000,
                   date |-> DateStr(date)]>>,
     expenses |-> <<[id |-> "exp1", name |-> "Rent", amount |-> 11000],
                    [id |-> "exp2", name |-> "Cook", amount |-> 1500],
                    [id |-> "exp3", name |-> "Groceries", amount |-> 3000],
                    [id |-> "exp4", name |-> "Travelling", amount |-> 500],
                    [id |-> "exp5", name |-> "Pakhi-Travelling", amount |-> 4000],
                    [id |-> "exp6", name |-> "Pakhi", amount |-> 5000]>>,
     investments |-> <<[id |-> "inv1", name |-> "Mutual Funds", amount |-> 17500],
                       [id |-> "inv2", name |-> "Stocks", amount |-> 17500],
                       [id |-> "inv3", name |-> "Liquid Fund", amount |-> 35000]>>,
     debts |-> <<[id |-> "dbt1", name |-> "Divyam", amount |-> 6500,
                  monthlyPayment |-> 2000],
                 [id |-> "dbt2", name |-> "Dada", amount |-> 50000,
                  monthlyPayment |-> 5000]>>,
     purchases |-> <<[id |-> "pur1", name |-> "Furniture (Sofa)", amount |-> 35000,
                      date |-> DateStr(date)]>>,
     metadata |-> NoMetadata]

\* item[f] = v on a dict
SetField(item, f, v) == [g \in DOMAIN item \cup {f} |-> IF g = f THEN v ELSE item[g]]

\* index of the first item of `items` whose id is `id`, 0 when there is none
FirstIndex(items, id) ==
    IF \E i \in 1..Len(items) : Get(items[i], "id", NoneVal) = id
    THEN CHOOSE i \in 1..Len(items) :
            /\ Get(items[i], "id", NoneVal) = id
            /\ \A j \in 1..(i - 1) : Get(items[j], "id", NoneVal) # id
    ELSE 0

\* find_balance_index (0 for the code's -1)
FindBalanceIndex(d) == FirstIndex(d.income, "inc2")

\* the names of the two instant categories
InstantCategories == {"one_time_inflow", "purchases"}

\* data['income'][balance_idx]['amount'] += delta
AddToBalance(d, balance_idx, delta) ==
    [d EXCEPT !.income[balance_idx] =
        SetField(@, "amount", FAdd(Get(@, "amount", 0), delta))]

\* UpdateBalance that also resets the metadata of the document
UpdateBalanceClearingGuards(d, category, amount_change) ==
    LET balance_idx == FindBalanceIndex(d)
        d1 == IF balance_idx = 0 THEN d
              ELSE IF category = "one_time_inflow"
                   THEN AddToBalance(d, balance_idx, amount_change)
              ELSE IF category = "purchases"
                   THEN AddToBalance(d, balance_idx, FNeg(amount_change))
              ELSE d
    IN [d1 EXCEPT !.metadata = NoMetadata]

\* UpdateBalance that adds the change for purchases as it does for inflows
UpdateBalanceSameSign(d, category, amount_change) ==
    LET balance_idx == FindBalanceIndex(d)
    IN IF balance_idx = 0 THEN d
       ELSE IF category \in InstantCategories
            THEN AddToBalance(d, balance_idx, amount_change)
       ELSE d

\* update_balance
UpdateBalance(d, category, amount_change) ==
    LET balance_idx == FindBalanceIndex(d)
    IN IF balance_idx = 0 THEN d
       ELSE IF category = "one_time_inflow"
            THEN AddToBalance(d, balance_idx, amount_change)
       ELSE IF category = "purchases"
            THEN AddToBalance(d, balance_idx, FNeg(amount_change))
       ELSE d

----------------------------------------------------------------------------
\* The store (get_mongo_collection, save_data)

\* SaveData that inserts a document at every call
SaveDataInsertOnly(st, data_to_save, up) ==
    IF ~up THEN st ELSE Append(st, data_to_save)

\* save_data; `up` is whether get_mongo_collection reaches the store
SaveData(st, data_to_save, up) ==
    IF ~up THEN st
    ELSE IF Len(st) > 0 THEN [st EXCEPT ![1] = data_to_save]
    ELSE <<data_to_save>>

----------------------------------------------------------------------------
\* The balance update engine (check_and_update_balance)

\* the dates the clock takes
Days == {PlusDays(StartDate, n) : n \in 0..(MaxDays + HorizonDays)}

\* is_eom and salary_date of check_and_update_balance when datetime.now() is
\* `date`
EngineOn(date) ==
    [is_eom |-> date = LastDayOfMonth(date),
     salary_date |-> GetSalaryDate(date.year, date.month)]

\* EngineOn, computed once for the days of the clock
EngineDates == [date \in Days |-> EngineOn(date)]

\* EngineOn from the table where it holds the date
EngineAt(date) ==
    IF date \in DOMAIN EngineDates THEN EngineDates[date] ELSE EngineOn(date)

\* is_eom
IsEom(date) == EngineAt(date).is_eom

\* DebtDue without the test of last_debt_payment_month
DebtDueUnguarded(d, date) == IsEom(date)

\* the condition of the debt reduction block
DebtDue(d, date) ==
    IsEom(date) /\ d.metadata.last_debt_payment_month # MonthKey(date)

\* PayDebt without the floor at 0
PayDebtUnfloored(debt) ==
    SetField(debt, "amount",
             FSub(Get(debt, "amount", 0), Get(debt, "monthlyPayment", 0)))

\* debt['amount'] = max(0, amount - payment)
PayDebt(debt) ==
    SetField(debt, "amount",
             Max(0, FSub(Get(debt, "amount", 0), Get(debt, "monthlyPayment", 0))))

\* whether block 1 changes the document: it is due and balance_item exists
DebtFires(d, date) == DebtDue(d, date) /\ FindBalanceIndex(d) # 0

\* DebtReduction that pays the debts and sets the guard without a balance item
DebtReductionWithoutBalance(d, date) ==
    LET balance_idx == FindBalanceIndex(d)
        total_payment == SumField(d.debts, "monthlyPayment")
    IN IF DebtDue(d, date)
       THEN [(IF balance_idx # 0
              THEN AddToBalance(d, balance_idx, FNeg(total_payment)) ELSE d) EXCEPT
               !.debts = [i \in 1..Len(d.debts) |-> PayDebt(d.debts[i])],
               !.metadata.last_debt_payment_month = MonthKey(date)]
       ELSE d

\* DebtReduction that debits of each debt no more than its outstanding
\* amount
DebtReductionCapped(d, date) ==
    LET balance_idx == FindBalanceIndex(d)
        capped == [i \in 1..Len(d.debts) |->
                     [paid |-> Get(d.debts[i], "amount", 0)
                               - Get(PayDebt(d.debts[i]), "amount", 0)]]
        total_payment == SumField(capped, "paid")
    IN IF DebtFires(d, date)
       THEN [AddToBalance(d, balance_idx, FNeg(total_payment)) EXCEPT
               !.debts = [i \in 1..Len(d.debts) |-> PayDebt(d.debts[i])],
               !.metadata.last_debt_payment_month = MonthKey(date)]
       ELSE d

\* block 1: the automatic debt reduction
DebtReduction(d, date) ==
    LET balance_idx == FindBalanceIndex(d)
        total_payment == SumField(d.debts, "monthlyPayment")
    IN IF DebtFires(d, date)
       THEN [AddToBalance(d, balance_idx, FNeg(total_payment)) EXCEPT
               !.debts = [i \in 1..Len(d.debts) |-> PayDebt(d.debts[i])],
               !.metadata.last_debt_payment_month = MonthKey(date)]
       ELSE d

\* SalaryDue without the test of last_balance_update_month
SalaryDueUnguarded(d, date) ==
    LET salary_date == EngineAt(date).salary_date
    IN salary_date # NoDate /\ DateGE(date, salary_date)

\* SalaryDue without the comparison of the date with salary_date
SalaryDueAnyDay(d, date) ==
    LET salary_date == EngineAt(date).salary_date
    IN /\ salary_date # NoDate
       /\ d.metadata.last_balance_update_month # MonthKey(date)

\* SalaryDueOn that takes a salary_date of None for a date that has passed
SalaryDueOnWithoutDate(d, date, salary_date) ==
    /\ salary_date = NoDate \/ DateGE(date, salary_date)
    /\ d.metadata.last_balance_update_month # MonthKey(date)

\* the condition of the salary credit block for the salary_date that
\* get_salary_date returned, None included
SalaryDueOn(d, date, salary_date) ==
    /\ salary_date # NoDate
    /\ DateGE(date, salary_date)
    /\ d.metadata.last_balance_update_month # MonthKey(date)

\* the condition of the salary credit block
SalaryDue(d, date) == SalaryDueOn(d, date, EngineAt(date).salary_date)

\* whether block 2 changes the document: it is due and both items exist
SalaryFires(d, date) ==
    /\ SalaryDue(d, date)
    /\ FirstIndex(d.income, "inc1") # 0
    /\ FindBalanceIndex(d) # 0

\* SalaryCredit that leaves last_balance_update_month as it was
SalaryCreditUnmarked(d, date) ==
    LET salary_idx == FirstIndex(d.income, "inc1")
        balance_idx == FindBalanceIndex(d)
    IN IF SalaryFires(d, date)
       THEN AddToBalance(d, balance_idx, Get(d.income[salary_idx], "amount", 0))
       ELSE d

\* block 2: the salary credit
SalaryCredit(d, date) ==
    LET salary_idx == FirstIndex(d.income, "inc1")
        balance_idx == FindBalanceIndex(d)
    IN IF SalaryFires(d, date)
       THEN [AddToBalance(d, balance_idx, Get(d.income[salary_idx], "amount", 0))
               EXCEPT !.metadata.last_balance_update_month = MonthKey(date)]
       ELSE d

\* block 2 for the salary_date that a get_salary_date with some offset
\* returned: the document after it
SalaryCreditOn(d, date, salary_date) ==
    LET salary_idx == FirstIndex(d.income, "inc1")
        balance_idx == FindBalanceIndex(d)
    IN IF SalaryDueOn(d, date, salary_date) /\ salary_idx # 0 /\ balance_idx # 0
       THEN [AddToBalance(d, balance_idx, Get(d.income[salary_idx], "amount", 0))
               EXCEPT !.metadata.last_balance_update_month = MonthKey(date)]
       ELSE d

\* CheckAndUpdateBalance without the save_data at its end
CheckAndUpdateBalanceUnsaved(d, st, date, upSave) ==
    LET d0 == IF "metadata" \in DOMAIN d THEN d
              ELSE [k \in DOMAIN d \cup {"metadata"} |->
                      IF k = "metadata" THEN NoMetadata ELSE d[k]]
        debt == DebtFires(d0, date)
        d1 == DebtReduction(d0, date)
        salary == SalaryFires(d1, date)
        d2 == SalaryCredit(d1, date)
    IN [data |-> d2, store |-> st, debt |-> debt, salary |-> salary,
        saved |-> FALSE]

\* CheckAndUpdateBalance whose salary block adds to the balance it read
\* before the debt block ran
CheckAndUpdateBalanceLostUpdate(d, st, date, upSave) ==
    LET d0 == IF "metadata" \in DOMAIN d THEN d
              ELSE [k \in DOMAIN d \cup {"metadata"} |->
                      IF k = "metadata" THEN NoMetadata ELSE d[k]]
        debt == DebtFires(d0, date)
        d1 == DebtReduction(d0, date)
        salary == SalaryFires(d1, date)
        d2 == IF salary
              THEN [d1 EXCEPT
                      !.income = SalaryCredit(d0, date).income,
                      !.metadata.last_balance_update_month = MonthKey(date)]
              ELSE d1
        data_modified == debt \/ salary
    IN [data |-> d2,
        store |-> IF data_modified THEN SaveData(st, d2, upSave) ELSE st,
        debt |-> debt,
        salary |-> salary,
        saved |-> data_modified /\ upSave]

\* check_and_update_balance on document d: the document after both blocks,
\* which blocks ran, and the store after the conditional save_data
CheckAndUpdateBalance(d, st, date, upSave) ==
    LET d0 == IF "metadata" \in DOMAIN d THEN d
              ELSE [k \in DOMAIN d \cup {"metadata"} |->
                      IF k = "metadata" THEN NoMetadata ELSE d[k]]
        debt == DebtFires(d0, date)
        d1 == DebtReduction(d0, date)
        salary == SalaryFires(d1, date)
        d2 == SalaryCredit(d1, date)
        data_modified == debt \/ salary
    IN [data |-> d2,
        store |-> IF data_modified THEN SaveData(st, d2, upSave) ELSE st,
        debt |-> debt,
        salary |-> salary,
        saved |-> data_modified /\ upSave]

\* LoadData that seeds the store with the default document at every start
LoadDataReseeding(st, date, upLoad, upSave) ==
    IF ~upLoad
    THEN [data |-> DefaultData(date), store |-> st, debt |-> FALSE,
          salary |-> FALSE, saved |-> FALSE]
    ELSE CheckAndUpdateBalance(DefaultData(date), <<DefaultData(date)>>, date, upSave)

\* load_data; upLoad and upSave are whether its two get_mongo_collection
\* calls (its own, and save_data's) reach the store
LoadData(st, date, upLoad, upSave) ==
    IF ~upLoad
    THEN [data |-> DefaultData(date), store |-> st, debt |-> FALSE,
          salary |-> FALSE, saved |-> FALSE]
    ELSE LET found == Len(st) > 0
             d == IF found THEN st[1] ELSE DefaultData(date)
             st1 == IF found THEN st ELSE Append(st, d)
         IN CheckAndUpdateBalance(d, st1, date, upSave)

----------------------------------------------------------------------------
\* The request handlers

\* `category in data and isinstance(data[category], list)`
IsListCategory(d, category) == category \in DOMAIN d /\ category # "metadata"

\* the amount add_item stores: float(item.get('amount', 0)), 0.0 when that raises
CoerceAmount(item) ==
    LET raw == Get(item, "amount", "0")
    IN IF FloatOk(raw) THEN FloatOf(raw) ELSE 0

\* AddItem that calls save_data whether or not the category is a list
AddItemSavingAlways(d, st, category, item, gen, up) ==
    IF IsListCategory(d, category)
    THEN LET item1 == IF "id" \in DOMAIN item THEN item ELSE SetField(item, "id", gen)
             amount == CoerceAmount(item1)
             item2 == SetField(item1, "amount", amount)
             d1 == [d EXCEPT ![category] = Append(@, item2)]
             d2 == IF category \in InstantCategories
                   THEN UpdateBalance(d1, category, amount) ELSE d1
         IN [data |-> d2, store |-> SaveData(st, d2, up), id |-> item2.id,
             amount |-> amount, found |-> TRUE, modified |-> TRUE, saved |-> up]
    ELSE [data |-> d, store |-> SaveData(st, d, up), id |-> Get(item, "id", ""),
          amount |-> 0, found |-> FALSE, modified |-> FALSE, saved |-> up]

\* add_item behind requires_auth; gen is the id os.urandom yields, up whether
\* save_data reaches the store
AddItem(d, st, category, item, gen, up) ==
    IF IsListCategory(d, category)
    THEN LET item1 == IF "id" \in DOMAIN item THEN item ELSE SetField(item, "id", gen)
             amount == CoerceAmount(item1)
             item2 == SetField(item1, "amount", amount)
             d1 == [d EXCEPT ![category] = Append(@, item2)]
             d2 == IF category \in InstantCategories
                   THEN UpdateBalance(d1, category, amount) ELSE d1
         IN [data |-> d2, store |-> SaveData(st, d2, up), id |-> item2.id,
             amount |-> amount, found |-> TRUE, modified |-> TRUE, saved |-> up]
    ELSE [data |-> d, store |-> st, id |-> Get(item, "id", ""), amount |-> 0,
          found |-> FALSE, modified |-> FALSE, saved |-> FALSE]

\* the fields update_item parses with float()
NumericFields == {"amount", "monthlyPayment"}

\* Change that takes the new amount for the difference
ChangeAbsolute(old_amount, new_amount) == new_amount

\* change = new_amount - old_amount
Change(old_amount, new_amount) == FSub(new_amount, old_amount)

\* UpdateItem without the break: the field is set on every item with the id
UpdateItemAllMatches(d, st, category, item_id, field, value, up) ==
    LET idx == IF IsListCategory(d, category)
               THEN FirstIndex(d[category], item_id) ELSE 0
    IN IF idx = 0
       THEN [data |-> d, store |-> st, amount |-> 0, found |-> FALSE,
             modified |-> FALSE, saved |-> FALSE]
       ELSE LET item == d[category][idx]
                old_amount == Get(item, "amount", 0)
                parsed == field \in NumericFields /\ FloatOk(value)
                data_modified == field \notin NumericFields \/ parsed
                new_amount == IF parsed THEN FloatOf(value) ELSE old_amount
                d1 == IF ~data_modified THEN d
                      ELSE [d EXCEPT ![category] =
                              [j \in 1..Len(@) |->
                                 IF Get(@[j], "id", NoneVal) = item_id
                                 THEN SetField(@[j], field,
                                               IF parsed THEN FloatOf(value) ELSE value)
                                 ELSE @[j]]]
                d2 == IF data_modified /\ category \in InstantCategories
                         /\ field = "amount"
                      THEN UpdateBalance(d1, category, Change(old_amount, new_amount))
                      ELSE d1
            IN [data |-> d2,
                store |-> IF data_modified THEN SaveData(st, d2, up) ELSE st,
                amount |-> new_amount, found |-> TRUE,
                modified |-> data_modified, saved |-> data_modified /\ up]

\* update_item behind requires_auth
UpdateItem(d, st, category, item_id, field, value, up) ==
    LET idx == IF IsListCategory(d, category)
               THEN FirstIndex(d[category], item_id) ELSE 0
    IN IF idx = 0
       THEN [data |-> d, store |-> st, amount |-> 0, found |-> FALSE,
             modified |-> FALSE, saved |-> FALSE]
       ELSE LET item == d[category][idx]
                old_amount == Get(item, "amount", 0)
                parsed == field \in NumericFields /\ FloatOk(value)
                data_modified == field \notin NumericFields \/ parsed
                new_amount == IF parsed THEN FloatOf(value) ELSE old_amount
                d1 == IF ~data_modified THEN d
                      ELSE [d EXCEPT ![category][idx] =
                              SetField(@, field, IF parsed THEN FloatOf(value) ELSE value)]
                d2 == IF data_modified /\ category \in InstantCategories
                         /\ field = "amount"
                      THEN UpdateBalance(d1, category, Change(old_amount, new_amount))
                      ELSE d1
            IN [data |-> d2,
                store |-> IF data_modified THEN SaveData(st, d2, up) ELSE st,
                amount |-> new_amount, found |-> TRUE,
                modified |-> data_modified, saved |-> data_modified /\ up]

\* the list comprehension of delete_item: the items whose id is not item_id
RECURSIVE WithoutId(_, _)
WithoutId(items, item_id) ==
    IF items = <<>> THEN <<>>
    ELSE IF Get(Head(items), "id", NoneVal) # item_id
         THEN <<Head(items)>> \o WithoutId(Tail(items), item_id)
    ELSE WithoutId(Tail(items), item_id)

\* DeleteItem that leaves the balance as it is
DeleteItemKeepingBalance(d, st, category, item_id, up) ==
    LET idx == IF IsListCategory(d, category)
               THEN FirstIndex(d[category], item_id) ELSE 0
    IN IF idx = 0
       THEN [data |-> d, store |-> st, amount |-> 0, found |-> FALSE,
             modified |-> FALSE, saved |-> FALSE]
       ELSE LET deleted_item == d[category][idx]
                amount == Get(deleted_item, "amount", 0)
                d1 == [d EXCEPT ![category] = WithoutId(@, item_id)]
            IN [data |-> d1, store |-> SaveData(st, d1, up), amount |-> amount,
                found |-> TRUE, modified |-> TRUE, saved |-> up]

\* delete_item behind requires_auth
DeleteItem(d, st, category, item_id, up) ==
    LET idx == IF IsListCategory(d, category)
               THEN FirstIndex(d[category], item_id) ELSE 0
    IN IF idx = 0
       THEN [data |-> d, store |-> st, amount |-> 0, found |-> FALSE,
             modified |-> FALSE, saved |-> FALSE]
       ELSE LET deleted_item == d[category][idx]
                amount == Get(deleted_item, "amount", 0)
                d1 == [d EXCEPT ![category] = WithoutId(@, item_id)]
                d2 == IF category \in InstantCategories
                      THEN UpdateBalance(d1, category, FNeg(amount)) ELSE d1
            IN [data |-> d2, store |-> SaveData(st, d2, up), amount |-> amount,
                found |-> TRUE, modified |-> TRUE, saved |-> up]

\* GetData that reloads the document, as a start of the process does
GetDataReloading(d, st, date) ==
    LET r == LoadData(st, date, TRUE, TRUE)
    IN [data |-> r.data, store |-> r.store, amount |-> 0, found |-> FALSE,
        modified |-> r.debt \/ r.salary, saved |-> r.saved]

\* get_data: reads the document, changes nothing
GetData(d, st, date) ==
    [data |-> d, store |-> st, amount |-> 0, found |-> FALSE, modified |-> FALSE,
     saved |-> FALSE]

----------------------------------------------------------------------------
\* Request inputs

\* SECRET_KEY
SecretKey == "secret"

\* an id the seeded document uses in the category
KnownId(category) ==
    CASE category = "income" -> "inc2"
      [] category = "one_time_inflow" -> "oti1"
      [] category = "expenses" -> "exp1"
      [] category = "investments" -> "inv1"
      [] category = "debts" -> "dbt1"
      [] category = "purchases" -> "pur1"
      [] OTHER -> "x1"

\* the ids os.urandom may yield
GenIds == {"item-a", "item-b"}

\* the ids requests name
ReqIds(category) == {KnownId(category), "item-a"}

\* the requests of SpecCrud, with the store reachable: the six lists of the
\* document, the amounts an added item carries, the (field, value) pairs of
\* updates
CrudMenu ==
    [bound |-> MaxCrud,
     categories |-> {"income", "one_time_inflow", "expenses", "investments",
                     "debts", "purchases"},
     amounts |-> {"5", "-7", "abc"},
     changes |-> {<<"amount", "9">>, <<"amount", "-7">>,
                  <<"monthlyPayment", "5">>, <<"name", "Renamed">>},
     ups |-> {TRUE},
     keys |-> {"wrong"}]

\* the requests of Spec, with the store reachable
SpecMenu ==
    [bound |-> MaxReqs,
     categories |-> {"income", "debts", "purchases", "metadata"},
     amounts |-> {"5"},
     changes |-> {<<"amount", "5">>, <<"amount", "-7">>},
     ups |-> {TRUE},
     keys |-> {"wrong"}]

\* the requests of SpecTotals: the two dated categories, and updates that
\* change an amount or make a date unparsable
TotalsMenu ==
    [bound |-> MaxTot,
     categories |-> {"purchases", "one_time_inflow"},
     amounts |-> {"5"},
     changes |-> {<<"amount", "9">>, <<"date", "soon">>},
     ups |-> {TRUE},
     keys |-> {"wrong"}]

\* the requests of SpecApi: a dated list, the metadata dict and a name the
\* document does not have; the store reachable or not at each save; the
\* X-Auth-Key header absent, empty, wrong or right
ApiMenu ==
    [bound |-> MaxApi,
     categories |-> {"purchases", "metadata", "savings"},
     amounts |-> {"5", "abc"},
     changes |-> {<<"amount", "9">>, <<"amount", "abc">>, <<"name", "Renamed">>},
     ups |-> BOOLEAN,
     keys |-> {NoneVal, "", "wrong", SecretKey}]

\* the requests of SpecEngine: updates of the amounts and payments the
\* engine reads, on income and debts
EngineMenu ==
    [bound |-> MaxEng,
     categories |-> {"income", "debts"},
     amounts |-> {"5"},
     changes |-> {<<"amount", "5">>, <<"monthlyPayment", "9">>},
     ups |-> {TRUE},
     keys |-> {"wrong"}]

\* the ids the deletes of SpecEngine name: the salary item, the balance item
\* and a debt
EngineIds == {"inc1", "inc2", "dbt1"}

\* the requests of SpecNumeric: a list that adjusts the balance and one that
\* does not, with the amounts 'abc', 'nan' and 'inf' (float() raises on the
\* first and accepts the other two)
NumericMenu ==
    [bound |-> MaxNum,
     categories |-> {"purchases", "expenses"},
     amounts |-> {"abc", "nan", "inf"},
     changes |-> {<<"amount", "abc">>, <<"amount", "nan">>, <<"amount", "inf">>},
     ups |-> {TRUE},
     keys |-> {"wrong"}]

\* the requests of SpecLedger: the two categories that adjust the balance,
\* numeric amounts, and updates of the amount and of the id
LedgerMenu ==
    [bound |-> MaxLedger,
     categories |-> InstantCategories,
     amounts |-> {"5"},
     changes |-> {<<"amount", "-7">>, <<"id", "item-a">>},
     ups |-> {TRUE},
     keys |-> {"wrong"}]

\* the requests of SpecRequests: a list that adjusts the balance and the
\* list the debt trigger reads
RequestsMenu ==
    [bound |-> MaxHttp,
     categories |-> {"purchases", "debts"},
     amounts |-> {"5"},
     changes |-> {<<"amount", "9">>, <<"monthlyPayment", "5">>},
     ups |-> {TRUE},
     keys |-> {"wrong"}]

\* the requests of SpecDebts: updates that bring a debt's amount below its
\* monthly payment, or set its monthly payment to 0
DebtMenu ==
    [bound |-> MaxDebtReqs,
     categories |-> {"debts"},
     amounts |-> {"5"},
     changes |-> {<<"amount", "5">>, <<"monthlyPayment", "0">>},
     ups |-> {TRUE},
     keys |-> {"wrong"}]

\* the id the deletes of SpecDebts name
DebtIds == {"dbt1"}

\* the requests of SpecFrame: updates of every kind of field, numeric or not,
\* on the six lists of the document
FrameMenu ==
    [bound |-> MaxFrame,
     categories |-> {"income", "one_time_inflow", "expenses", "investments",
                     "debts", "purchases"},
     amounts |-> {"5"},
     changes |-> {<<"amount", "9">>, <<"amount", "abc">>, <<"name", "Renamed">>,
                  <<"date", "soon">>, <<"monthlyPayment", "5">>,
                  <<"id", "item-a">>},
     ups |-> {TRUE},
     keys |-> {"wrong"}]

\* the id the deletes of SpecFrame name: the balance item
FrameIds == {"inc2"}

\* the item the client's addItem builds; id = NoneVal leaves the id out
ClientItem(category, id, raw, date) ==
    LET base == [name |-> "New", amount |-> raw]
        withId == IF id = NoneVal THEN base ELSE SetField(base, "id", id)
    IN IF category = "debts" THEN SetField(withId, "monthlyPayment", 0)
       ELSE IF category \in InstantCategories
            THEN SetField(withId, "date", DateStr(date))
       ELSE withId

----------------------------------------------------------------------------
\* Observations

\* whether the document has a balance item
HasBalance(d) == FindBalanceIndex(d) # 0

\* currentBalance of calculate_totals: the balance item's amount, 0 without one
Balance(d) ==
    IF HasBalance(d) THEN Get(d.income[FindBalanceIndex(d)], "amount", 0) ELSE 0

\* datetime.strptime(s, '%Y-%m-%d') of the date strings the model holds: the
\* days of the clock and the default '1900-01-01'; any other value raises
StrptimeTable ==
    [s \in {DateStr(day) : day \in Days} \cup {"1900-01-01"} |->
       IF s = "1900-01-01" THEN [year |-> 1900, month |-> 1, day |-> 1]
       ELSE CHOOSE day \in Days : DateStr(day) = s]

\* InCurrentMonth that takes a date that does not parse for one of the month
InCurrentMonthLenient(item, now) ==
    LET s == Get(item, "date", "1900-01-01")
    IN s \in DOMAIN StrptimeTable =>
          /\ StrptimeTable[s].year = now.year
          /\ StrptimeTable[s].month = now.month

\* whether the date of the item parses and lies in the month of `now`
InCurrentMonth(item, now) ==
    LET s == Get(item, "date", "1900-01-01")
    IN /\ s \in DOMAIN StrptimeTable
       /\ StrptimeTable[s].year = now.year
       /\ StrptimeTable[s].month = now.month

RECURSIVE CurrentMonthTotal(_, _)
\* the loops of calculate_totals over purchases and one_time_inflow: the
\* amounts of the items of the current month
CurrentMonthTotal(items, now) ==
    IF items = <<>> THEN 0
    ELSE LET rest == CurrentMonthTotal(Tail(items), now)
         IN IF InCurrentMonth(Head(items), now)
            THEN FAdd(Get(Head(items), "amount", 0), rest)
            ELSE rest

\* total_income_rate with the balance item counted in
TotalIncomeRateAll(d) == SumField(d.income, "amount")

\* total_income_rate: the income items other than 'inc2'
TotalIncomeRate(d) == SumField(WithoutId(d.income, "inc2"), "amount")

\* monthly_recurring_outflow without the debt payments
MonthlyRecurringOutflowWithoutDebt(total_expenses, total_investments, total_debt_payment) ==
    FAdd(total_expenses, total_investments)

\* monthly_recurring_outflow = total_expenses + total_investments + total_debt_payment
MonthlyRecurringOutflow(total_expenses, total_investments, total_debt_payment) ==
    FAdd(FAdd(total_expenses, total_investments), total_debt_payment)

\* calculate_totals on document d when datetime.now() is `now`
CalculateTotals(d, now) ==
    LET current_month_purchases_total == CurrentMonthTotal(d.purchases, now)
        current_month_inflow_total == CurrentMonthTotal(d.one_time_inflow, now)
        total_income_rate == TotalIncomeRate(d)
        total_expenses == SumField(d.expenses, "amount")
        total_investments == SumField(d.investments, "amount")
        total_debt_payment == SumField(d.debts, "monthlyPayment")
        monthly_recurring_outflow ==
            MonthlyRecurringOutflow(total_expenses, total_investments,
                                    total_debt_payment)
        remaining_after_recurring == FSub(total_income_rate, monthly_recurring_outflow)
    IN [currentBalance |-> Balance(d),
        totalIncomeRate |-> total_income_rate,
        totalExpenses |-> total_expenses,
        totalInvestments |-> total_investments,
        totalDebt |-> SumField(d.debts, "amount"),
        totalDebtPayment |-> total_debt_payment,
        currentMonthPurchasesTotal |-> current_month_purchases_total,
        totalAllTimePurchases |-> SumField(d.purchases, "amount"),
        currentMonthInflowTotal |-> current_month_inflow_total,
        totalAllTimeInflow |-> SumField(d.one_time_inflow, "amount"),
        totalInflowForStats |-> FAdd(total_income_rate, current_month_inflow_total),
        totalOutflow |-> FAdd(monthly_recurring_outflow, current_month_purchases_total),
        remainingBalance |-> remaining_after_recurring,
        isPositive |-> FGE(remaining_after_recurring, 0)]

\* the body of a response that carries no totals
NoTotals == [message |-> NoneVal]

\* the body requires_auth answers with
AuthError == [message |-> "Authentication Required: Invalid 'X-Auth-Key' header."]

\* ResponseTotals computed from the document as it was before the handler ran
ResponseTotalsStale(d, r, status, date) ==
    IF status = 200 THEN CalculateTotals(d, date) ELSE AuthError

\* the body of the response to a request: the totals calculate_totals
\* returns at the end of the handler, or the error of requires_auth
ResponseTotals(d, r, status, date) ==
    IF status = 200 THEN CalculateTotals(r.data, date) ELSE AuthError

\* the record of a load: whether load_data reached the store and found a
\* document there, the balance of the document it started from, which blocks
\* ran, whether a save reached the store, and the day of the load
LoadOp(d, found, up, r, date) ==
    [op |-> "load", category |-> "", id |-> "", field |-> "", value |-> "",
     amount |-> 0, bal |-> Balance(d), hadBal |-> HasBalance(d), found |-> found,
     up |-> up, modified |-> r.debt \/ r.salary, saved |-> r.saved,
     debt |-> r.debt, salary |-> r.salary, status |-> 0, date |-> date,
     key |-> NoneVal, body |-> NoTotals]

\* the record of a request: its inputs, the balance before it, whether the
\* handler found its target, changed the document and saved it, the HTTP
\* status and the body of the answer; the key is the secret unless the action
\* says otherwise
ReqOp(op, category, id, field, value, d, r, status, date) ==
    [op |-> op, category |-> category, id |-> id, field |-> field, value |-> value,
     amount |-> r.amount, bal |-> Balance(d), hadBal |-> HasBalance(d),
     found |-> r.found, up |-> TRUE, modified |-> r.modified, saved |-> r.saved,
     debt |-> FALSE, salary |-> FALSE, status |-> status, date |-> date,
     key |-> SecretKey, body |-> ResponseTotals(d, r, status, date)]

----------------------------------------------------------------------------
\* The state machine

\* the module-level `data = load_data()` of a first start on an empty store
Init ==
    \E upLoad \in BOOLEAN :
        \E r \in {LoadData(<<>>, StartDate, upLoad, TRUE)} :
           /\ today = StartDate
           /\ store = r.store
           /\ data = r.data
           /\ last = LoadOp(r.data, FALSE, upLoad, r, StartDate)
           /\ nreq = 0
           /\ running = <<>>

\* a first start on an empty store that answers, on day CalFirstDay of any
\* month of the calendar runs
InitCalendar ==
    \E year \in CalFirstYear..(CalFirstYear + CalYears - 1), month \in 1..12,
       upLoad \in {TRUE} :
        \E date \in {[year |-> year, month |-> month, day |-> CalFirstDay]} :
          \E r \in {LoadData(<<>>, date, upLoad, TRUE)} :
             /\ today = date
             /\ store = r.store
             /\ data = r.data
             /\ last = LoadOp(r.data, FALSE, upLoad, r, date)
             /\ nreq = 0
             /\ running = <<>>

\* a day passes, up to the first day of the next month
TickCalendar ==
    /\ today.day >= CalFirstDay
    /\ today' = NextDay(today)
    /\ UNCHANGED <<store, data, last, nreq, running>>

\* a start on an empty store that answers, on day CalFirstDay of any month of
\* the calendar runs, followed by days without a restart: today is any day
\* from then to the end of the month
InitOffsets ==
    \E year \in CalFirstYear..(CalFirstYear + CalYears - 1), month \in 1..12 :
      \E day \in CalFirstDay..DaysInMonth(year, month) :
        \E date \in {[year |-> year, month |-> month, day |-> CalFirstDay]} :
          \E r \in {LoadData(<<>>, date, TRUE, TRUE)} :
             /\ today = [year |-> year, month |-> month, day |-> day]
             /\ store = r.store
             /\ data = r.data
             /\ last = LoadOp(r.data, FALSE, TRUE, r, date)
             /\ nreq = 0
             /\ running = <<>>

\* get_last_working_day is called for the month of today with an offset of
\* 1..MaxOffset, and block 2 of check_and_update_balance runs on the date it
\* returned, on the document the load left, with the save that follows a
\* change
CheckWithOffset ==
    /\ last.op = "load"
    /\ \E offset \in 1..MaxOffset :
      \E salary_date \in {GetLastWorkingDay(today.year, today.month, offset)} :
        \E d \in {SalaryCreditOn(data, today, salary_date)} :
           /\ data' = d
           /\ store' = IF d # data THEN SaveData(store, d, TRUE) ELSE store
           /\ last' = [op |-> "check", offset |-> offset, result |-> salary_date,
                       salary |-> d # data, bal |-> Balance(data), date |-> today]
           /\ UNCHANGED <<today, nreq, running>>

\* a day passes
Tick(bound) ==
    /\ Ordinal(today) - Ordinal(StartDate) < bound
    /\ today' = NextDay(today)
    /\ UNCHANGED <<store, data, last, nreq, running>>

\* the process (re)starts: `data = load_data()`; save_data is only reached
\* when load_data got its collection
Load ==
    \E upLoad \in BOOLEAN :
      \E upSave \in (IF upLoad THEN BOOLEAN ELSE {FALSE}) :
        \E r \in {LoadData(store, today, upLoad, upSave)},
           d \in {IF upLoad /\ Len(store) > 0 THEN store[1] ELSE DefaultData(today)} :
           /\ data' = r.data
           /\ store' = r.store
           /\ last' = LoadOp(d, upLoad /\ Len(store) > 0, upLoad, r, today)
           /\ UNCHANGED <<today, nreq, running>>

\* the process (re)starts while the store answers
LoadReachable ==
    \E r \in {LoadData(store, today, TRUE, TRUE)},
       d \in {IF Len(store) > 0 THEN store[1] ELSE DefaultData(today)} :
       /\ data' = r.data
       /\ store' = r.store
       /\ last' = LoadOp(d, Len(store) > 0, TRUE, r, today)
       /\ UNCHANGED <<today, nreq, running>>

\* POST /api/add with the secret key; os.urandom is only drawn for an item
\* that comes without an id
ReqAdd(menu) ==
    /\ nreq < menu.bound
    /\ \E category \in menu.categories, raw \in menu.amounts, up \in menu.ups :
         \E id \in {NoneVal, KnownId(category)} :
          \E gen \in (IF id = NoneVal THEN GenIds ELSE {id}) :
            \E r \in {AddItem(data, store, category,
                              ClientItem(category, id, raw, today), gen, up)} :
               /\ data' = r.data
               /\ store' = r.store
               /\ last' = [ReqOp("add", category, r.id, "amount", raw, data, r, 200,
                                 today) EXCEPT !.up = up]
    /\ nreq' = nreq + 1
    /\ UNCHANGED <<today, running>>

\* POST /api/update with the secret key
ReqUpdate(menu) ==
    /\ nreq < menu.bound
    /\ \E category \in menu.categories, change \in menu.changes, up \in menu.ups :
         \E id \in ReqIds(category) :
            \E r \in {UpdateItem(data, store, category, id, change[1], change[2], up)} :
               /\ data' = r.data
               /\ store' = r.store
               /\ last' = [ReqOp("update", category, id, change[1], change[2], data,
                                 r, 200, today) EXCEPT !.up = up]
    /\ nreq' = nreq + 1
    /\ UNCHANGED <<today, running>>

\* POST /api/delete with the secret key
ReqDelete(menu) ==
    /\ nreq < menu.bound
    /\ \E category \in menu.categories, up \in menu.ups :
         \E id \in ReqIds(category) :
            \E r \in {DeleteItem(data, store, category, id, up)} :
               /\ data' = r.data
               /\ store' = r.store
               /\ last' = [ReqOp("delete", category, id, "", "", data, r, 200, today)
                             EXCEPT !.up = up]
    /\ nreq' = nreq + 1
    /\ UNCHANGED <<today, running>>

\* POST /api/delete with the secret key, naming one of `ids`
ReqDeleteOf(menu, ids) ==
    /\ nreq < menu.bound
    /\ \E category \in menu.categories, id \in ids, up \in menu.ups :
         \E r \in {DeleteItem(data, store, category, id, up)} :
            /\ data' = r.data
            /\ store' = r.store
            /\ last' = [ReqOp("delete", category, id, "", "", data, r, 200, today)
                          EXCEPT !.up = up]
    /\ nreq' = nreq + 1
    /\ UNCHANGED <<today, running>>

\* POST /api/add with the secret key from a client that sends the item with
\* a name and an amount only, no id and no date
ReqAddBare(menu) ==
    /\ nreq < menu.bound
    /\ \E category \in menu.categories, raw \in menu.amounts, gen \in GenIds,
          up \in menu.ups :
         \E r \in {AddItem(data, store, category, [name |-> "New", amount |-> raw],
                           gen, up)} :
            /\ data' = r.data
            /\ store' = r.store
            /\ last' = [ReqOp("add", category, r.id, "amount", raw, data, r, 200,
                              today) EXCEPT !.up = up]
    /\ nreq' = nreq + 1
    /\ UNCHANGED <<today, running>>

\* the body of the answer of get_data: {**data, **totals}
GetBody(d, date) ==
    LET totals == CalculateTotals(d, date)
    IN [k \in DOMAIN d \cup DOMAIN totals |->
          IF k \in DOMAIN totals THEN totals[k] ELSE d[k]]

\* GET /api/data, which takes no key; the serialisation of the body by
\* jsonify is not modelled, the answer is recorded with status 200
ReqGet(menu) ==
    /\ nreq < menu.bound
    /\ \E r \in {GetData(data, store, today)} :
          /\ data' = r.data
          /\ store' = r.store
          /\ last' = [ReqOp("get", "", "", "", "", data, r, 200, today)
                        EXCEPT !.key = NoneVal, !.body = GetBody(r.data, today)]
    /\ nreq' = nreq + 1
    /\ UNCHANGED <<today, running>>

\* AuthOk that lets every key that is present pass
AuthOkAnyKey(auth_key) == auth_key # NoneVal /\ auth_key # ""

\* requires_auth: `auth_key and auth_key == SECRET_KEY`
AuthOk(auth_key) == auth_key # NoneVal /\ auth_key # "" /\ auth_key = SecretKey

\* what requires_auth does instead of calling the handler: nothing
Denied(d, st) ==
    [data |-> d, store |-> st, amount |-> 0, found |-> FALSE, modified |-> FALSE,
     saved |-> FALSE]

\* the handler of the endpoint, on a request that names the seeded purchase
Handle(op, d, st, date) ==
    CASE op = "add" ->
           AddItem(d, st, "purchases", ClientItem("purchases", "pur1", "5", date),
                   "pur1", TRUE)
      [] op = "update" -> UpdateItem(d, st, "purchases", "pur1", "amount", "5", TRUE)
      [] OTHER -> DeleteItem(d, st, "purchases", "pur1", TRUE)

\* a POST that names the seeded purchase, with whatever X-Auth-Key header the
\* client sends, absent or not the secret key in most cases
ReqDenied(menu) ==
    /\ nreq < menu.bound
    /\ \E op \in {"add", "update", "delete"}, auth_key \in menu.keys :
         \E ok \in {AuthOk(auth_key)} :
           \E r \in {IF ok THEN Handle(op, data, store, today)
                      ELSE Denied(data, store)} :
              /\ data' = r.data
              /\ store' = r.store
              /\ last' = [ReqOp(op, "purchases", "pur1", "amount", "5", data, r,
                                IF ok THEN 200 ELSE 401, today)
                            EXCEPT !.key = auth_key]
    /\ nreq' = nreq + 1
    /\ UNCHANGED <<today, running>>

\* the id os.urandom yields in thread t
ThreadGen(t) == IF t = 1 THEN "item-a" ELSE "item-b"

\* a worker thread of the server takes an authenticated request on purchases:
\* an Add of a new item, or an Update of the amount of the seeded purchase
Accept ==
    /\ Len(running) < MaxThreads
    /\ \E op \in {"add", "update"}, value \in {"5", "9"} :
         running' = Append(running, [op |-> op, value |-> value, old_amount |-> 0,
                                     pc |-> IF op = "update" THEN "read" ELSE "item"])
    /\ UNCHANGED <<today, store, data, last, nreq>>

\* update_item in thread t reads old_amount of the item it found
ThreadRead(t) ==
    /\ running[t].pc = "read"
    /\ running' = [running EXCEPT
                     ![t].old_amount =
                        Get(data.purchases[FirstIndex(data.purchases, "pur1")],
                            "amount", 0),
                     ![t].pc = "item"]
    /\ UNCHANGED <<today, store, data, last, nreq>>

\* thread t writes the item: update_item sets item[field] = new_amount on the
\* item it found, add_item appends the new item
ThreadWriteItem(t) ==
    /\ running[t].pc = "item"
    /\ data' = IF running[t].op = "update"
               THEN [data EXCEPT !.purchases[FirstIndex(data.purchases, "pur1")] =
                       SetField(@, "amount", FloatOf(running[t].value))]
               ELSE [data EXCEPT !.purchases =
                       Append(@, SetField(SetField(ClientItem("purchases", NoneVal,
                                                              running[t].value, today),
                                                   "id", ThreadGen(t)),
                                          "amount", FloatOf(running[t].value)))]
    /\ running' = [running EXCEPT ![t].pc = "balance"]
    /\ UNCHANGED <<today, store, last, nreq>>

\* thread t calls update_balance: with the change it computed from the
\* old_amount it read, or with the amount of the item it added
ThreadWriteBalance(t) ==
    /\ running[t].pc = "balance"
    /\ data' = UpdateBalance(data, "purchases",
                             IF running[t].op = "update"
                             THEN Change(running[t].old_amount,
                                         FloatOf(running[t].value))
                             ELSE FloatOf(running[t].value))
    /\ running' = [running EXCEPT ![t].pc = "save"]
    /\ UNCHANGED <<today, store, last, nreq>>

\* thread t calls save_data(data) and answers
ThreadSave(t) ==
    /\ running[t].pc = "save"
    /\ store' = SaveData(store, data, TRUE)
    /\ running' = [running EXCEPT ![t].pc = "done"]
    /\ UNCHANGED <<today, data, last, nreq>>

\* the whole system: the clock, restarts and requests
Next ==
    \/ Tick(MaxDays)
    \/ Load
    \/ ReqAdd(SpecMenu)
    \/ ReqUpdate(SpecMenu)
    \/ ReqDelete(SpecMenu)
    \/ ReqDenied(SpecMenu)

Spec == Init /\ [][Next]_vars

\* the clock and restarts alone
NextLoads == Tick(HorizonDays) \/ Load

SpecLoads == Init /\ [][NextLoads]_vars

\* requests alone, on the day of the first start
NextCrud ==
    \/ ReqAdd(CrudMenu)
    \/ ReqUpdate(CrudMenu)
    \/ ReqDelete(CrudMenu)
    \/ ReqDenied(CrudMenu)

SpecCrud == Init /\ [][NextCrud]_vars

\* the clock, restarts and requests on the dated categories
NextTotals ==
    \/ Tick(MaxDays)
    \/ Load
    \/ ReqAdd(TotalsMenu)
    \/ ReqAddBare(TotalsMenu)
    \/ ReqUpdate(TotalsMenu)
    \/ ReqDelete(TotalsMenu)

SpecTotals == Init /\ [][NextTotals]_vars

\* restarts, and requests with and without the secret key, the store
\* reachable or not
NextApi ==
    \/ Load
    \/ ReqAdd(ApiMenu)
    \/ ReqUpdate(ApiMenu)
    \/ ReqDelete(ApiMenu)
    \/ ReqDenied(ApiMenu)

SpecApi == Init /\ [][NextApi]_vars

\* the clock, restarts, and requests that change what the engine reads: the
\* salary, the balance, the debts
NextEngine ==
    \/ Tick(MaxDays)
    \/ Load
    \/ ReqUpdate(EngineMenu)
    \/ ReqDeleteOf(EngineMenu, EngineIds)

SpecEngine == Init /\ [][NextEngine]_vars

\* the end of every month of the calendar runs, day by day, with restarts on
\* a store that answers
NextCalendar == TickCalendar \/ LoadReachable

SpecCalendar == InitCalendar /\ [][NextCalendar]_vars

\* requests whose amounts are not finite numbers, on the day of the first
\* start
NextNumeric ==
    \/ ReqAdd(NumericMenu)
    \/ ReqUpdate(NumericMenu)
    \/ ReqDelete(NumericMenu)

SpecNumeric == Init /\ [][NextNumeric]_vars

\* requests handled at the same time by the threads of the server, which
\* switch at the calls the handlers make
NextRace ==
    \/ Accept
    \/ \E t \in DOMAIN running : ThreadRead(t)
    \/ \E t \in DOMAIN running : ThreadWriteItem(t)
    \/ \E t \in DOMAIN running : ThreadWriteBalance(t)
    \/ \E t \in DOMAIN running : ThreadSave(t)

SpecRace == Init /\ [][NextRace]_vars

\* the clock, restarts on a store that answers, and requests on purchases
\* and one_time_inflow
NextLedger ==
    \/ Tick(MaxLedgerDays)
    \/ LoadReachable
    \/ ReqAdd(LedgerMenu)
    \/ ReqUpdate(LedgerMenu)
    \/ ReqDelete(LedgerMenu)

SpecLedger == Init /\ [][NextLedger]_vars

\* the clock, restarts, and the four endpoints
NextRequests ==
    \/ Tick(MaxDays)
    \/ Load
    \/ ReqGet(RequestsMenu)
    \/ ReqAdd(RequestsMenu)
    \/ ReqUpdate(RequestsMenu)
    \/ ReqDelete(RequestsMenu)

SpecRequests == Init /\ [][NextRequests]_vars

\* the clock over two month ends, restarts on a store that answers, and
\* updates and deletes of debts
NextDebts ==
    \/ Tick(HorizonDays)
    \/ LoadReachable
    \/ ReqUpdate(DebtMenu)
    \/ ReqDeleteOf(DebtMenu, DebtIds)

SpecDebts == Init /\ [][NextDebts]_vars

\* updates of every field, after adds that repeat an id and deletes of the
\* balance item, on the day of the first start
NextFrame ==
    \/ ReqAdd(FrameMenu)
    \/ ReqUpdate(FrameMenu)
    \/ ReqDeleteOf(FrameMenu, FrameIds)

SpecFrame == Init /\ [][NextFrame]_vars

\* get_last_working_day called with every offset on the last days of every
\* month of the calendar runs, and the salary block run on its result
NextOffsets == CheckWithOffset

SpecOffsets == InitOffsets /\ [][NextOffsets]_vars

----------------------------------------------------------------------------
\* Properties

\* the document load_data starts from when it reaches the store
Loaded == IF Len(store) > 0 THEN store[1] ELSE DefaultData(today)

\* a step that is a run of load_data which reached the store
LoadStep == today' = today /\ nreq' = nreq /\ last'.op = "load" /\ last'.up

\* a step that is the handling of one HTTP request
RequestStep == nreq' = nreq + 1

\* the day is the last calendar day of its month
IsLastDay(date) == date.day = DaysInMonth(date.year, date.month)

\* the day is on or after the salary date of its month
SalaryDatePassed(date) ==
    /\ GetSalaryDate(date.year, date.month) # NoDate
    /\ DateGE(date, GetSalaryDate(date.year, date.month))

\* the salary item and the balance item are both present
HasSalaryAndBalance(d) == FirstIndex(d.income, "inc1") # 0 /\ HasBalance(d)

\* the amount of the salary item
Salary(d) == Get(d.income[FirstIndex(d.income, "inc1")], "amount", 0)

\* what a load on `date` debits from the balance of document d: the debt
\* payment, when the day is the month's last and the payment is still due
DebitOn(d, date) ==
    IF IsLastDay(date) /\ HasBalance(d)
       /\ d.metadata.last_debt_payment_month # MonthKey(date)
    THEN SumField(d.debts, "monthlyPayment") ELSE 0

\* what a load on `date` credits to the balance of document d: the salary,
\* when the salary date has passed and the credit is still due
CreditOn(d, date) ==
    IF SalaryDatePassed(date) /\ HasSalaryAndBalance(d)
       /\ d.metadata.last_balance_update_month # MonthKey(date)
    THEN Salary(d) ELSE 0

\* C1 as stated: on a date at or after the salary date, with both items
\* present, a load of a document whose guard is not the month key adds exactly
\* the salary amount to the balance and sets the guard, and a load of a
\* document whose guard is the month key leaves the whole document unchanged.
C1_AsStated ==
    [][(LoadStep /\ SalaryDatePassed(today) /\ HasSalaryAndBalance(Loaded)) =>
         IF Loaded.metadata.last_balance_update_month # MonthKey(today)
         THEN /\ Balance(data') = Balance(Loaded) + Salary(Loaded)
              /\ data'.metadata.last_balance_update_month = MonthKey(today)
         ELSE data' = Loaded /\ store' = store]_vars

\* C1 (amended): on a date at or after the salary date, with both items
\* present, the first load adds exactly the salary amount to the balance and
\* sets metadata.last_balance_update_month to the month key; every later load
\* in that month credits nothing; the only other change a load makes is the
\* debt payment of the month's last calendar day, and without it a later load
\* leaves the whole document, in memory and persisted, unchanged.
C1_SalaryCreditedOnce ==
    [][(LoadStep /\ SalaryDatePassed(today) /\ HasSalaryAndBalance(Loaded)) =>
         /\ data'.metadata.last_balance_update_month = MonthKey(today)
         /\ IF Loaded.metadata.last_balance_update_month # MonthKey(today)
            THEN /\ last'.salary
                 /\ Balance(data') =
                      Balance(Loaded) + Salary(Loaded) - DebitOn(Loaded, today)
            ELSE /\ ~last'.salary
                 /\ Balance(data') = Balance(Loaded) - DebitOn(Loaded, today)
                 /\ (DebitOn(Loaded, today) = 0 /\ ~last'.debt)
                       => (data' = Loaded /\ store' = store)]_vars

\* C1 witness: a later load of the month, after the salary was credited, has
\* just run and credited nothing
C1_Witness ==
    /\ last.op = "load" /\ last.up /\ last.found /\ ~last.salary /\ ~last.debt
    /\ SalaryDatePassed(today)
    /\ last.date = today
    /\ data.metadata.last_balance_update_month = MonthKey(today)
    /\ Balance(data) = last.bal

\* every debt of d after one payment: its amount less its monthlyPayment,
\* floored at 0
DebtsPaid(d) ==
    [i \in 1..Len(d.debts) |->
        SetField(d.debts[i], "amount",
                 IF Get(d.debts[i], "amount", 0) > Get(d.debts[i], "monthlyPayment", 0)
                 THEN Get(d.debts[i], "amount", 0) - Get(d.debts[i], "monthlyPayment", 0)
                 ELSE 0)]

\* C2: on the last calendar day of a month, with the balance item present,
\* the first load reduces every debt's amount by its monthlyPayment, floored at
\* 0, debits the payments from the balance and sets
\* metadata.last_debt_payment_month to the month key; every later load of that
\* month leaves all debt amounts unchanged and debits nothing.
C2_DebtPaidOnce ==
    [][(LoadStep /\ IsLastDay(today) /\ HasBalance(Loaded)) =>
         /\ data'.metadata.last_debt_payment_month = MonthKey(today)
         /\ IF Loaded.metadata.last_debt_payment_month # MonthKey(today)
            THEN /\ last'.debt
                 /\ data'.debts = DebtsPaid(Loaded)
                 /\ Balance(data') =
                      Balance(Loaded) - SumField(Loaded.debts, "monthlyPayment")
                      + CreditOn(Loaded, today)
            ELSE /\ ~last'.debt
                 /\ data'.debts = Loaded.debts
                 /\ Balance(data') = Balance(Loaded) + CreditOn(Loaded, today)]_vars

\* C2 witness: on the last day of the month a load has left the paid debts as
\* they were, one of them floored at 0 by the payment
C2_Witness ==
    /\ last.op = "load" /\ last.up /\ last.found /\ ~last.debt
    /\ last.date = today /\ IsLastDay(today)
    /\ data.metadata.last_debt_payment_month = MonthKey(today)
    /\ \E i \in 1..Len(data.debts) : data.debts[i].amount = 0
    /\ Balance(data) = last.bal

\* C3 as stated: in a month in which the document was loaded, the salary
\* credit and the debt payment are each applied exactly once: a load applies
\* neither to a document that carries the month's guard, and when the month
\* ends the document loaded in it carries both guards of that month.
C3_AsStated ==
    [][/\ (LoadStep /\ Loaded.metadata.last_balance_update_month = MonthKey(today))
             => ~last'.salary
       /\ (LoadStep /\ Loaded.metadata.last_debt_payment_month = MonthKey(today))
             => ~last'.debt
       /\ (/\ MonthKey(today') # MonthKey(today)
           /\ last.op = "load" /\ last.up /\ MonthKey(last.date) = MonthKey(today)
           /\ HasSalaryAndBalance(data))
             => /\ data.metadata.last_balance_update_month = MonthKey(today)
                /\ data.metadata.last_debt_payment_month = MonthKey(today)]_vars

\* C3 (amended): each month's salary credit and each month's debt payment
\* are applied at most once to a document: a load applies neither to a
\* document that carries the month's guard, and the load that applies one sets
\* its guard. The salary credit is applied exactly once in a month in which
\* the document is loaded on or after the salary date, and the debt payment
\* exactly once in a month in which it is loaded on the last calendar day; a
\* month without such a load gets none.
C3_OncePerMonthWhenLoadedInTime ==
    [][/\ LoadStep =>
            /\ last'.salary <=>
                  /\ SalaryDatePassed(today) /\ HasSalaryAndBalance(Loaded)
                  /\ Loaded.metadata.last_balance_update_month # MonthKey(today)
            /\ last'.salary =>
                  data'.metadata.last_balance_update_month = MonthKey(today)
            /\ last'.debt <=>
                  /\ IsLastDay(today) /\ HasBalance(Loaded)
                  /\ Loaded.metadata.last_debt_payment_month # MonthKey(today)
            /\ last'.debt =>
                  data'.metadata.last_debt_payment_month = MonthKey(today)
            /\ Balance(data') =
                  Balance(Loaded) + CreditOn(Loaded, today) - DebitOn(Loaded, today)
       /\ (/\ MonthKey(today') # MonthKey(today)
           /\ last.op = "load" /\ last.up /\ MonthKey(last.date) = MonthKey(today)
           /\ HasSalaryAndBalance(data))
             => /\ SalaryDatePassed(last.date)
                     => data.metadata.last_balance_update_month = MonthKey(today)
                /\ IsLastDay(last.date)
                     => data.metadata.last_debt_payment_month = MonthKey(today)
                /\ ~SalaryDatePassed(last.date)
                     => data.metadata.last_balance_update_month # MonthKey(today)
                /\ ~IsLastDay(last.date)
                     => data.metadata.last_debt_payment_month # MonthKey(today)]_vars

\* C3 witness: the second month of the run: its salary has been credited by
\* a load on or after its salary date, while the payment of the month before
\* was made and the one of this month is not yet due
C3_Witness ==
    /\ MonthKey(today) # MonthKey(StartDate)
    /\ last.op = "load" /\ last.up /\ last.salary /\ last.date = today
    /\ data.metadata.last_balance_update_month = MonthKey(today)
    /\ data.metadata.last_debt_payment_month = MonthKey(StartDate)

Sign(category) ==
    IF category = "one_time_inflow" THEN 1
    ELSE IF category = "purchases" THEN 0 - 1 ELSE 0

\* C5: Add of a purchase, or of a one_time_inflow item, of amount X followed
\* by Delete of that item's id leaves the balance equal to its value before the
\* Add.
C5_AddThenDeleteRestoresBalance ==
    [][(/\ last.op = "add" /\ last.found /\ last.category \in InstantCategories
        /\ RequestStep /\ last'.op = "delete" /\ last'.status = 200
        /\ last'.category = last.category /\ last'.id = last.id)
          => Balance(data') = last.bal]_vars

\* C6: Add(category, item) on a list category appends the item, with the
\* amount coerced to a number, to that category and changes no other item; it
\* changes the amount of the balance item by +amount for one_time_inflow, by
\* -amount for purchases, and not at all for every other category.
C6_AddEffect ==
    [][(RequestStep /\ last'.op = "add" /\ last'.status = 200
        /\ IsListCategory(data, last'.category)) =>
         LET category == last'.category
             added == data'[category][Len(data'[category])]
         IN /\ Len(data'[category]) = Len(data[category]) + 1
            /\ SubSeq(data'[category], 1, Len(data[category])) = data[category]
            /\ added.id = last'.id /\ added.amount = last'.amount
            /\ last'.amount = IF FloatOk(last'.value) THEN FloatOf(last'.value) ELSE 0
            /\ \A c \in DOMAIN data \ {category, "income"} : data'[c] = data[c]
            /\ HasBalance(data) =>
                  /\ FindBalanceIndex(data') = FindBalanceIndex(data)
                  /\ Balance(data') = Balance(data) + Sign(category) * last'.amount
                  /\ category # "income" =>
                        data'.income =
                           [data.income EXCEPT ![FindBalanceIndex(data)] =
                              SetField(@, "amount", Balance(data'))]
            /\ (~HasBalance(data) /\ category # "income") =>
                  data'.income = data.income]_vars

\* C6 witness: a purchase of a non-zero amount has been added and the balance
\* is lower by that amount
C6_Witness ==
    /\ last.op = "add" /\ last.status = 200 /\ last.category = "purchases"
    /\ last.hadBal /\ last.amount # 0
    /\ Balance(data) = last.bal - last.amount

\* C7: Update(category, id, 'amount', v) on an existing item of
\* one_time_inflow or purchases, v a number, sets the amount of the first item
\* with that id to v and changes the balance by v - oldAmount, added for
\* one_time_inflow and subtracted for purchases: the balance less the item's
\* signed amount is the same before and after.
C7_UpdateDelta ==
    [][(/\ RequestStep /\ last'.op = "update" /\ last'.status = 200
        /\ last'.field = "amount" /\ last'.category \in InstantCategories
        /\ last'.found /\ FloatOk(last'.value)) =>
         LET category == last'.category
             i == FirstIndex(data[category], last'.id)
             v == FloatOf(last'.value)
         IN /\ data'[category][i].amount = v
            /\ HasBalance(data) =>
                  /\ Balance(data') =
                        Balance(data)
                        + Sign(category) * (v - data[category][i].amount)
                  /\ Balance(data') - Sign(category) * v =
                        Balance(data) - Sign(category) * data[category][i].amount]_vars

\* C7 witness: the amount of a purchase has been updated and the balance has
\* moved by the difference
C7_Witness ==
    /\ last.op = "update" /\ last.status = 200 /\ last.category = "purchases"
    /\ last.field = "amount" /\ last.modified /\ last.hadBal
    /\ Balance(data) # last.bal

\* C8 as stated: in every reachable state every entry of debts has
\* amount >= 0.
C8_AsStated ==
    \A i \in 1..Len(data.debts) : Get(data.debts[i], "amount", 0) >= 0

\* C9: in every reachable state the income list holds exactly one entry with
\* id 'inc2'.
C9_SingleBalanceItem ==
    Cardinality({i \in 1..Len(data.income) :
                    Get(data.income[i], "id", NoneVal) = "inc2"}) = 1

\* C10: a Delete of the balance item (category income, id 'inc2') and an
\* Update of its name are rejected: the answer is not a success and the
\* document, in memory and persisted, is unchanged.
C10_BalanceItemProtected ==
    [][(/\ RequestStep /\ last'.category = "income" /\ last'.id = "inc2"
        /\ \/ last'.op = "delete"
           \/ last'.op = "update" /\ last'.field = "name")
          => /\ last'.status # 200
             /\ data' = data
             /\ store' = store]_vars

\* the totals GET /api/data reports in the current state
Totals == CalculateTotals(data, today)

RECURSIVE SumTo(_, _, _)
\* the plain sum of field f over the first n items, a missing field counting 0
SumTo(items, f, n) ==
    IF n = 0 THEN 0 ELSE SumTo(items, f, n - 1) + Get(items[n], f, 0)

\* C11: whatever income, expenses, investments and debts hold,
\* calculate_totals returns remainingBalance = totalIncomeRate - (totalExpenses
\* + totalInvestments + totalDebtPayment) and isPositive = (remainingBalance >=
\* 0), the three outflow totals being the straight sums of the amounts of
\* expenses, of the amounts of investments and of the monthlyPayment of debts.
C11_TotalsConsistent ==
    \A t \in {Totals} :
       /\ t.totalExpenses = SumTo(data.expenses, "amount", Len(data.expenses))
       /\ t.totalInvestments =
             SumTo(data.investments, "amount", Len(data.investments))
       /\ t.totalDebtPayment = SumTo(data.debts, "monthlyPayment", Len(data.debts))
       /\ t.remainingBalance =
             t.totalIncomeRate
             - (t.totalExpenses + t.totalInvestments + t.totalDebtPayment)
       /\ t.isPositive = (t.remainingBalance >= 0)

\* C11 witness: an update of a debt's monthlyPayment has changed
\* totalDebtPayment, and remainingBalance with it
C11_Witness ==
    /\ last.op = "update" /\ last.category = "debts" /\ last.field = "monthlyPayment"
    /\ last.modified
    /\ \E t \in {Totals} :
          /\ t.totalDebtPayment = 5005
          /\ t.remainingBalance = 116938 - (25000 + 70000 + 5005)
          /\ t.isPositive

RECURSIVE SumOthers(_, _)
\* the plain sum of the amounts of the first n income items whose id is not
\* 'inc2'
SumOthers(items, n) ==
    IF n = 0 THEN 0
    ELSE SumOthers(items, n - 1)
         + (IF Get(items[n], "id", NoneVal) = "inc2" THEN 0 ELSE items[n].amount)

\* C12: totalIncomeRate is the sum of the amounts of the income entries other
\* than the balance entry and currentBalance is the amount of the balance
\* entry; a salary credit, a debt payment, and an Add, Update or Delete of a
\* purchase or an inflow change neither totalIncomeRate nor remainingBalance.
C12_RateExcludesBalance ==
    [][\A before \in {IF LoadStep THEN CalculateTotals(Loaded, today) ELSE Totals},
          after \in {CalculateTotals(data', today')} :
          /\ after.totalIncomeRate = SumOthers(data'.income, Len(data'.income))
          /\ after.currentBalance = Balance(data')
          /\ HasBalance(data') =>
                after.currentBalance = data'.income[FindBalanceIndex(data')].amount
          /\ (LoadStep \/ (RequestStep /\ last'.category \in InstantCategories))
                => /\ after.totalIncomeRate = before.totalIncomeRate
                   /\ after.remainingBalance = before.remainingBalance]_vars

\* C12 witness: a load has credited the salary: the balance has moved and
\* totalIncomeRate is still the salary alone
C12_Witness ==
    /\ last.op = "load" /\ last.salary /\ Balance(data) # last.bal
    /\ Totals.currentBalance = Balance(data)
    /\ Totals.totalIncomeRate = 116938

\* the date strings of each month of the clock
MonthStrings ==
    [k \in {MonthKey(day) : day \in Days} |->
       {DateStr(day) : day \in {x \in Days : MonthKey(x) = k}}]

RECURSIVE SumOfMonth(_, _, _)
\* the plain sum of the amounts of the first n items that carry a date of the
\* month with key k
SumOfMonth(items, k, n) ==
    IF n = 0 THEN 0
    ELSE SumOfMonth(items, k, n - 1)
         + (IF "date" \in DOMAIN items[n] /\ items[n].date \in MonthStrings[k]
            THEN items[n].amount ELSE 0)

\* C13: for purchases and for one_time_inflow, the all-time total is the sum
\* of the amounts of all items, and the current-month total is the sum over
\* exactly the items whose date parses and lies in the (year, month) of today;
\* an item whose date is missing or does not parse counts in the all-time
\* total only.
C13_MonthAndAllTimeTotals ==
    \A t \in {Totals} :
       /\ t.totalAllTimePurchases =
             SumTo(data.purchases, "amount", Len(data.purchases))
       /\ t.totalAllTimeInflow =
             SumTo(data.one_time_inflow, "amount", Len(data.one_time_inflow))
       /\ t.currentMonthPurchasesTotal =
             SumOfMonth(data.purchases, MonthKey(today), Len(data.purchases))
       /\ t.currentMonthInflowTotal =
             SumOfMonth(data.one_time_inflow, MonthKey(today),
                        Len(data.one_time_inflow))

\* C13 witness: the date of the seeded purchase has been made unparsable:
\* it still counts in the all-time total and no longer in the month's
C13_Witness ==
    /\ last.op = "update" /\ last.category = "purchases" /\ last.field = "date"
    /\ last.modified
    /\ data.purchases[1].date = "soon"
    /\ Totals.totalAllTimePurchases = 35000
    /\ Totals.currentMonthPurchasesTotal = 0

\* C14: a request to /api/add, /api/update or /api/delete whose X-Auth-Key
\* header is absent, empty or not the secret key is answered 401 with the
\* error body, and neither the in-memory document nor the persisted document
\* changes; a request that carries the secret key is not answered 401.
C14_DeniedChangesNothing ==
    [][RequestStep =>
         IF last'.key = SecretKey
         THEN last'.status = 200
         ELSE /\ last'.status = 401
              /\ last'.body = AuthError
              /\ data' = data
              /\ store' = store]_vars

\* C14 witness: after an Add that went through, a request without the
\* header has been answered 401
C14_Witness ==
    /\ last.status = 401 /\ last.key = NoneVal /\ last.op = "delete"
    /\ nreq = 2
    /\ Len(data.purchases) = 2
    /\ store = <<data>>

\* C15: after an authenticated Add, Update or Delete that changes the
\* in-memory document while the store is reachable, the persisted document is
\* the in-memory document; and the totals in the response of every
\* authenticated request are those of the document as the handler leaves it.
C15_PersistAfterMutation ==
    [][(RequestStep /\ last'.status = 200) =>
         /\ (data' # data /\ last'.up) => (last'.saved /\ store' = <<data'>>)
         /\ last'.body = CalculateTotals(data', today')]_vars

\* C15 witness: two purchases of 5 have been added, the second one is
\* persisted with the first, and the response carries the totals after it
C15_Witness ==
    /\ last.op = "add" /\ last.status = 200 /\ last.category = "purchases"
    /\ last.modified /\ last.saved /\ nreq = 2
    /\ store = <<data>>
    /\ last.body.totalAllTimePurchases = 35010
    /\ last.body.currentBalance = last.bal - 5

\* C16: the store never holds two documents: a save replaces the document
\* that is there, or inserts the first one; and a load that follows returns
\* the content of the last save (to which it applies the monthly updates that
\* are due on the day).
C16_SingleDocument ==
    [][/\ Len(store) <= 1 /\ Len(store') <= 1
       /\ (RequestStep /\ last'.saved) => store' = <<data'>>
       /\ (LoadStep /\ Len(store) = 1) =>
             /\ last'.found
             /\ (~last'.debt /\ ~last'.salary) => (data' = store[1] /\ store' = store)]_vars

\* C16 witness: a restart after two requests has loaded the one stored
\* document, which holds what both of them saved
C16_Witness ==
    /\ last.op = "load" /\ last.up /\ last.found /\ nreq = 2
    /\ Len(store) = 1 /\ data = store[1]
    /\ Len(data.purchases) = 2 /\ data.purchases[1].amount = 9

\* the handler of the request thread t took, run from start to end on d
Serial(t, d, st) ==
    IF running[t].op = "update"
    THEN UpdateItem(d, st, "purchases", "pur1", "amount", running[t].value, TRUE)
    ELSE AddItem(d, st, "purchases",
                 ClientItem("purchases", NoneVal, running[t].value, today),
                 ThreadGen(t), TRUE)

\* the document after the requests of threads t and u handled one after the
\* other on the document of the first start
SerialOutcome(t, u) ==
    LET first == Serial(t, DefaultData(StartDate), <<>>)
    IN Serial(u, first.data, first.store).data

\* C17: two authenticated requests that adjust the balance and are handled
\* at the same time do not interleave: once both are answered, the document,
\* in memory and persisted, is the one that handling them one after the other,
\* in one order or the other, gives: the balance holds both deltas and the
\* store reflects both mutations.
C17_Serialized ==
    (Len(running) = 2 /\ \A t \in DOMAIN running : running[t].pc = "done")
       => /\ data = SerialOutcome(1, 2) \/ data = SerialOutcome(2, 1)
          /\ store = <<data>>


\* the amounts of the items of category whose id is item_id
AmountsOf(d, category, item_id) ==
    {Get(d[category][i], "amount", 0) :
        i \in {k \in 1..Len(d[category]) : Get(d[category][k], "id", "") = item_id}}

\* C18: an Add or an Update of the amount whose value is a non-numeric string,
\* NaN or Infinity leaves the item it names with a stored amount that is a
\* finite number, and does not make the balance non-finite.
C18_NumericSafety ==
    [][(/\ RequestStep /\ last'.status = 200 /\ last'.op \in {"add", "update"}
        /\ last'.field = "amount" /\ last'.value \in {"abc", "nan", "inf"}
        /\ IsListCategory(data, last'.category))
          => /\ \A a \in AmountsOf(data', last'.category, last'.id) : IsFinite(a)
             /\ (HasBalance(data) /\ IsFinite(Balance(data)))
                   => IsFinite(Balance(data'))]_vars


\* C19: an Update or a Delete whose id no item of the named list carries is
\* reported to the caller as such, by a status that is not 200, and leaves
\* the document, in memory and persisted, unchanged.
C19_NotFoundReported ==
    [][(/\ RequestStep /\ last'.key = SecretKey /\ last'.op \in {"update", "delete"}
        /\ IsListCategory(data, last'.category)
        /\ FirstIndex(data[last'.category], last'.id) = 0)
          => /\ last'.status # 200
             /\ data' = data
             /\ store' = store]_vars


\* C20: an authenticated Add whose category is not a list-valued field of
\* the document (the metadata dict, or a name the document does not have) is
\* answered 200 with the totals and changes nothing: no list, not the
\* balance, not the metadata, not the persisted document.
C20_UnknownCategoryNoOp ==
    [][(/\ RequestStep /\ last'.op = "add" /\ last'.key = SecretKey
        /\ ~IsListCategory(data, last'.category))
          => /\ last'.status = 200
             /\ last'.body = CalculateTotals(data, today)
             /\ data' = data
             /\ store' = store
             /\ ~last'.saved]_vars

\* C20 witness: on a first start that did not reach the store, an Add to
\* 'metadata' has been answered 200 and nothing was saved, then an Add to
\* 'savings' likewise
C20_Witness ==
    /\ last.op = "add" /\ last.category = "savings" /\ last.status = 200
    /\ last.key = SecretKey /\ last.up /\ ~last.found /\ ~last.saved
    /\ nreq = 2
    /\ store = <<>>
    /\ data = DefaultData(StartDate)
    /\ last.body = CalculateTotals(data, today)


\* C21: an authenticated Add, Update or Delete that changes the document
\* while the store cannot be reached is answered with status 503, not with
\* success.
C21_StoreFailureSurfaced ==
    [][(/\ RequestStep /\ last'.key = SecretKey /\ last'.modified /\ ~last'.up)
          => last'.status = 503]_vars

\* C22: a process whose startup load did not reach the store holds the default
\* document and writes nothing to the store afterwards: the request that
\* follows such a load leaves the store as it was.
C22_DegradedNeverWrites ==
    [][(/\ last.op = "load" /\ ~last.up /\ RequestStep)
          => /\ data = DefaultData(last.date)
             /\ store' = store]_vars


\* max(0, amount - monthlyPayment) of a debt, a missing field counting 0
AmountAfterPayment(debt) ==
    IF Get(debt, "amount", 0) - Get(debt, "monthlyPayment", 0) > 0
    THEN Get(debt, "amount", 0) - Get(debt, "monthlyPayment", 0)
    ELSE 0

\* C23: a load on the last calendar day of a month of a document that has a
\* balance item and whose last_debt_payment_month is not the month key lowers
\* the balance by the sum of monthlyPayment over the debts, sets each debt's
\* amount to max(0, amount - monthlyPayment) and last_debt_payment_month to
\* the month key, and changes nothing else: the other lists, the other income
\* items and the names of the debts stay, and the balance and
\* last_balance_update_month move further only by the salary credit of the
\* same load.
C23_DebtTriggerEffect ==
    [][(/\ LoadStep /\ IsLastDay(today) /\ HasBalance(Loaded)
        /\ Loaded.metadata.last_debt_payment_month # MonthKey(today))
          => /\ last'.debt
             /\ Balance(data') =
                   Balance(Loaded) - SumTo(Loaded.debts, "monthlyPayment",
                                           Len(Loaded.debts))
                   + CreditOn(Loaded, today)
             /\ Len(data'.debts) = Len(Loaded.debts)
             /\ \A i \in 1..Len(Loaded.debts) :
                   /\ data'.debts[i].amount = AmountAfterPayment(Loaded.debts[i])
                   /\ data'.debts[i].amount >= 0
                   /\ \A f \in DOMAIN Loaded.debts[i] \ {"amount"} :
                         data'.debts[i][f] = Loaded.debts[i][f]
             /\ data'.metadata.last_debt_payment_month = MonthKey(today)
             /\ data'.metadata.last_balance_update_month =
                   IF CreditOn(Loaded, today) # 0 \/ last'.salary
                   THEN MonthKey(today)
                   ELSE Loaded.metadata.last_balance_update_month
             /\ \A c \in DOMAIN Loaded \ {"income", "debts", "metadata"} :
                   data'[c] = Loaded[c]
             /\ data'.income =
                   [Loaded.income EXCEPT ![FindBalanceIndex(Loaded)] =
                      SetField(@, "amount", Balance(data'))]]_vars

\* C23 witness: a load on the last day of December has paid the debts, one
\* of which owed less than its payment and now stands at 0, and the balance is
\* lower by the two payments
C23_Witness ==
    /\ last.op = "load" /\ last.up /\ last.debt /\ ~last.salary
    /\ IsLastDay(today) /\ last.date = today
    /\ data.metadata.last_debt_payment_month = MonthKey(today)
    /\ data.debts[1].amount = 0 /\ data.debts[1].monthlyPayment = 2000
    /\ data.debts[2].amount = 45000
    /\ Balance(data) = last.bal - 7000


\* the days of month `month` of `year` that are Monday to Friday
WorkingDays(year, month) ==
    {day \in 1..DaysInMonth(year, month) :
        Weekday([year |-> year, month |-> month, day |-> day]) < 5}

\* the Monday-to-Friday day of the month after which exactly two more
\* Monday-to-Friday days of the month follow
ThirdLastWorkingDay(year, month) ==
    LET working == WorkingDays(year, month)
    IN [year |-> year, month |-> month,
        day |-> CHOOSE day \in working :
                   Cardinality({e \in working : e > day}) = 2]

\* C30: for the month of every day of the calendar runs, whatever its length
\* and the weekday of its last day, get_salary_date returns the third
\* Monday-to-Friday day counted backward from the last calendar day, never
\* None; it is the Wednesday before the month's end when the month ends on a
\* Saturday or on a Sunday.
C30_SalaryDateThirdLast ==
    \A s \in {GetSalaryDate(today.year, today.month)} :
       /\ s # NoDate
       /\ s = ThirdLastWorkingDay(today.year, today.month)
       /\ Weekday([today EXCEPT !.day = DaysInMonth(today.year, today.month)]) \in {5, 6}
             => /\ Weekday(s) = 2
                /\ s.day = DaysInMonth(today.year, today.month)
                           - (Weekday([today EXCEPT
                                         !.day = DaysInMonth(today.year, today.month)])
                              - 2)

\* C30 witness: in a February of 28 days that ends on a Sunday a load on the
\* Wednesday before has credited the salary
C30_Witness ==
    /\ today.month = 2 /\ DaysInMonth(today.year, today.month) = 28
    /\ Weekday([today EXCEPT !.day = 28]) = 6
    /\ today.day = 24 /\ Weekday(today) = 2
    /\ today = GetSalaryDate(today.year, today.month)
    /\ last.op = "load" /\ last.up /\ last.salary /\ last.date = today
    /\ Balance(data) = last.bal + 116938


\* C24: the day check_and_update_balance takes for the last of the month is
\* the last calendar day of the month, whatever the month's length, December
\* with its change of year included; a load pays the debts exactly when its
\* day is that day and last_debt_payment_month is not the month key (the
\* balance item being present), and a load on any other day leaves the debts
\* and last_debt_payment_month as they were.
C24_DebtTriggerGating ==
    [][LoadStep =>
         /\ LastDayOfMonth(today) =
               [today EXCEPT !.day = DaysInMonth(today.year, today.month)]
         /\ IsEom(today) = IsLastDay(today)
         /\ HasBalance(Loaded) =>
               (last'.debt <=>
                  (/\ IsLastDay(today)
                   /\ Loaded.metadata.last_debt_payment_month # MonthKey(today)))
         /\ last'.debt => IsLastDay(today)
         /\ ~IsLastDay(today) =>
               /\ data'.debts = Loaded.debts
               /\ data'.metadata.last_debt_payment_month =
                     Loaded.metadata.last_debt_payment_month]_vars

\* C24 witness: a load on 31 December has paid the debts, after a load on 30
\* December that did not
C24_Witness ==
    /\ today.month = 12 /\ today.day = 31
    /\ last.op = "load" /\ last.up /\ last.found /\ last.debt /\ last.date = today
    /\ data.metadata.last_debt_payment_month = MonthKey(today)
    /\ data.metadata.last_balance_update_month = MonthKey(today)
    /\ ~last.salary
    /\ data.debts[1].amount = 4500

\* C25: with the salary item and the balance item present, a load credits the
\* salary exactly when the month's salary date is defined, the day of the load
\* is on or after it and last_balance_update_month is not the month key; the
\* credit raises the balance by the amount of the salary item and sets
\* last_balance_update_month to the month key; a load on a day before the
\* salary date leaves the balance and last_balance_update_month as they were.
C25_SalaryTriggerGating ==
    [][(LoadStep /\ HasSalaryAndBalance(Loaded)) =>
         \A salary_date \in {GetSalaryDate(today.year, today.month)} :
            /\ last'.salary <=>
                  (/\ salary_date # NoDate
                   /\ Ordinal(today) >= Ordinal(salary_date)
                   /\ Loaded.metadata.last_balance_update_month # MonthKey(today))
            /\ last'.salary =>
                  /\ Balance(data') =
                        Balance(Loaded) - DebitOn(Loaded, today) + Salary(Loaded)
                  /\ data'.metadata.last_balance_update_month = MonthKey(today)
            /\ (salary_date # NoDate /\ Ordinal(today) < Ordinal(salary_date)) =>
                  /\ Balance(data') = Balance(Loaded)
                  /\ data'.metadata.last_balance_update_month =
                        Loaded.metadata.last_balance_update_month
                  /\ ~last'.debt]_vars

\* C25 witness: after a load on the eve of the salary date that credited
\* nothing, a load on a day after the salary date, not the month's last, has
\* credited the salary
C25_Witness ==
    /\ last.op = "load" /\ last.up /\ last.found /\ last.salary /\ ~last.debt
    /\ last.date = today
    /\ Ordinal(today) > Ordinal(GetSalaryDate(today.year, today.month))
    /\ ~IsLastDay(today)
    /\ Balance(data) = last.bal + 116938
    /\ data.metadata.last_balance_update_month = MonthKey(today)
    /\ data.metadata.last_debt_payment_month = NoneVal


\* C26: a load on the last calendar day of a month of a document that has
\* the salary item and the balance item and neither guard of the month runs
\* both blocks on the same balance item, the debt payment first: the balance
\* ends at the old balance less the sum of monthlyPayment plus the salary, and
\* both guards are the month key, in memory and, when the save reaches the
\* store, persisted.
C26_BothTriggersInOneLoad ==
    [][(/\ LoadStep /\ IsLastDay(today) /\ HasSalaryAndBalance(Loaded)
        /\ Loaded.metadata.last_debt_payment_month # MonthKey(today)
        /\ Loaded.metadata.last_balance_update_month # MonthKey(today))
          => /\ last'.debt /\ last'.salary
             /\ Balance(data') =
                   Balance(Loaded)
                   - SumTo(Loaded.debts, "monthlyPayment", Len(Loaded.debts))
                   + Salary(Loaded)
             /\ data'.metadata.last_debt_payment_month = MonthKey(today)
             /\ data'.metadata.last_balance_update_month = MonthKey(today)
             /\ last'.saved => store' = <<data'>>]_vars

\* C26 witness: the one load of December, on the 31st, has paid 7000 and
\* credited 116938 on the balance of 45000
C26_Witness ==
    /\ last.op = "load" /\ last.up /\ last.found /\ last.debt /\ last.salary
    /\ last.saved /\ last.date = today /\ IsLastDay(today)
    /\ last.bal = 45000
    /\ Balance(data) = 45000 - 7000 + 116938
    /\ data.metadata.last_debt_payment_month = "2025-12"
    /\ data.metadata.last_balance_update_month = "2025-12"
    /\ store = <<data>>


HasSalary(d) == FirstIndex(d.income, "inc1") # 0

\* C28: a load of a document without the balance item runs neither block,
\* whatever the day and the guards: the document, its debts and its guards,
\* and the store are as before and nothing is saved; a load of a document
\* with the balance item but without the salary item credits nothing: the
\* balance moves by the debt payment of the day only and
\* last_balance_update_month stays.
C28_MissingItemsNoOp ==
    [][(LoadStep /\ Len(store) = 1) =>
         /\ ~HasBalance(Loaded) =>
               /\ ~last'.debt /\ ~last'.salary /\ ~last'.saved
               /\ data' = Loaded
               /\ store' = store
         /\ (HasBalance(Loaded) /\ ~HasSalary(Loaded)) =>
               /\ ~last'.salary
               /\ Balance(data') = Balance(Loaded) - DebitOn(Loaded, today)
               /\ data'.metadata.last_balance_update_month =
                     Loaded.metadata.last_balance_update_month]_vars

\* C28 witness: the balance item was deleted, and a load on the last day of
\* December, with both guards unset and the salary date passed, has left the
\* debts unpaid and the guards unset
C28_Witness ==
    /\ last.op = "load" /\ last.up /\ last.found /\ ~last.hadBal
    /\ ~last.debt /\ ~last.salary /\ ~last.saved
    /\ last.date = today /\ IsLastDay(today) /\ SalaryDatePassed(today)
    /\ ~HasBalance(data) /\ HasSalary(data)
    /\ data.metadata = NoMetadata
    /\ data.debts[1].amount = 6500
    /\ store = <<data>>


\* the ids of the items of a list, in order
IdsOf(items) == [i \in 1..Len(items) |-> Get(items[i], "id", NoneVal)]

\* a step that is a run of load_data, whether or not it reached the store
AnyLoadStep == today' = today /\ nreq' = nreq /\ last'.op = "load"

\* C29: a load that reaches an empty store leaves exactly one document in it,
\* the default seed (with the monthly updates of the day applied when they
\* are due); a load of a store that holds a document leaves that one document
\* there, with the items it had: it is untouched unless a monthly update of
\* the day is saved, which changes amounts and guards only; a load that does
\* not reach the store writes nothing.
C29_DocumentLifecycle ==
    [][AnyLoadStep =>
         /\ Len(store') <= 1
         /\ ~last'.up => store' = store
         /\ (last'.up /\ Len(store) = 0) =>
               /\ ~last'.found
               /\ Len(store') = 1
               /\ \A c \in DOMAIN DefaultData(today) \ {"metadata"} :
                     IdsOf(store'[1][c]) = IdsOf(DefaultData(today)[c])
               /\ (~last'.debt /\ ~last'.salary) =>
                     (store' = <<DefaultData(today)>> /\ data' = DefaultData(today))
         /\ (last'.up /\ Len(store) = 1) =>
               /\ last'.found
               /\ Len(store') = 1
               /\ \A c \in DOMAIN store[1] \ {"metadata"} :
                     IdsOf(store'[1][c]) = IdsOf(store[1][c])
               /\ \A c \in DOMAIN store[1] \ {"metadata", "income", "debts"} :
                     store'[1][c] = store[1][c]
               /\ (~last'.debt /\ ~last'.salary) =>
                     (store' = store /\ data' = store[1])]_vars

\* C29 witness: after a first start that seeded the store and a Delete of a
\* debt, a restart has loaded the stored document, which still lacks the
\* debt and is not the default
C29_Witness ==
    /\ last.op = "load" /\ last.up /\ last.found /\ nreq = 1
    /\ Len(store) = 1 /\ data = store[1]
    /\ IdsOf(data.debts) = <<"dbt2">>
    /\ IdsOf(DefaultData(today).debts) = <<"dbt1", "dbt2">>

\* the ids of the items of a list are pairwise distinct
DistinctIds(items) ==
    \A i, j \in 1..Len(items) :
        i # j => Get(items[i], "id", NoneVal) # Get(items[j], "id", NoneVal)

\* the balance with the instant transactions taken out again:
\* balance - sum(one_time_inflow amounts) + sum(purchases amounts)
Conserved(d) ==
    Balance(d) - SumField(d.one_time_inflow, "amount")
               + SumField(d.purchases, "amount")

\* a step in which a monthly trigger changed the document
TriggerStep == last'.op = "load" /\ (last'.debt \/ last'.salary)

\* C31: over authenticated Add, Update and Delete requests on purchases and
\* one_time_inflow whose item ids are pairwise distinct within a category and
\* whose amounts are numeric, with no trigger firing, the quantity
\* balance - sum(one_time_inflow amounts) + sum(purchases amounts) keeps its
\* value: no step that acts on distinct ids and fires no trigger changes it.
C31_BalanceConservation ==
    [][(/\ ~TriggerStep
        /\ DistinctIds(data.purchases)
        /\ DistinctIds(data.one_time_inflow))
          => Conserved(data') = Conserved(data)]_vars

\* C31 witness: after two requests on distinct ids the last of which deleted
\* an item of a non-zero amount and moved the balance, with no trigger fired,
\* the quantity has the value it had at the start
C31_Witness ==
    /\ nreq = 2 /\ last.op = "delete" /\ last.found
    /\ last.category \in InstantCategories /\ last.amount # 0
    /\ Balance(data) # last.bal
    /\ data.metadata = NoMetadata
    /\ DistinctIds(data.purchases) /\ DistinctIds(data.one_time_inflow)
    /\ Conserved(data) = Conserved(DefaultData(StartDate))

\* C32: in every reachable state, after any sequence of authenticated Add,
\* Update and Delete requests (Adds with a client-chosen id and Updates of
\* the field 'id' included), the ids of the items within each category are
\* pairwise distinct.
C32_IdUniqueness ==
    \A category \in DOMAIN data \ {"metadata"} : DistinctIds(data[category])

\* the change of the balance the handler of the request in last' makes by
\* itself on document d: the signed amount of the item added, the signed
\* difference of an updated amount, the signed amount of the item deleted
OwnDelta(d, op) ==
    LET category == op.category
        i == IF IsListCategory(d, category)
             THEN FirstIndex(d[category], op.id) ELSE 0
    IN CASE op.op = "add" -> Sign(category) * op.amount
         [] op.op = "update" /\ op.field = "amount" /\ i # 0 /\ FloatOk(op.value) ->
               Sign(category) * (FloatOf(op.value) - Get(d[category][i], "amount", 0))
         [] op.op = "delete" /\ i # 0 ->
               0 - Sign(category) * Get(d[category][i], "amount", 0)
         [] OTHER -> 0

\* a monthly trigger is due on `date` for document d
TriggerDue(d, date) == DebitOn(d, date) # 0 \/ CreditOn(d, date) # 0

\* C33: after startup no HTTP request (GET /api/data, /api/add, /api/update,
\* /api/delete) reloads the document or evaluates the monthly triggers:
\* whatever the date, a request leaves the metadata guards as they are, moves
\* the balance only by what its own handler adds or subtracts, changes no
\* debt it does not name, and GET changes nothing at all; the guards change
\* only in a run of load_data.
C33_TriggersOnlyAtLoad ==
    [][/\ RequestStep =>
            /\ data'.metadata = data.metadata
            /\ last'.op = "get" => (data' = data /\ store' = store)
            /\ last'.category # "debts" => data'.debts = data.debts
            /\ Balance(data') = Balance(data) + OwnDelta(data, last')
       /\ data'.metadata # data.metadata => (last'.op = "load" /\ ~RequestStep)]_vars

\* C33 witness: a request has been answered on the last day of the month
\* while the debt payment and the salary credit of the month were both due,
\* and both are still due after it
C33_Witness ==
    /\ last.op \in {"get", "add", "update", "delete"} /\ last.status = 200
    /\ last.date = today /\ IsLastDay(today)
    /\ DebitOn(data, today) # 0 /\ CreditOn(data, today) # 0
    /\ data.metadata = NoMetadata

\* what the debt block takes off the principal of a debt: its amount before
\* less its amount after
PrincipalPaid(debt) == Get(debt, "amount", 0) - Get(PayDebt(debt), "amount", 0)

\* a debt whose outstanding amount does not cover its monthly payment
Underfunded(debt) ==
    /\ Get(debt, "amount", 0) >= 0
    /\ Get(debt, "amount", 0) < Get(debt, "monthlyPayment", 0)

\* C34: when the debt trigger fires the balance is debited the full
\* monthlyPayment of every debt, also of a debt whose outstanding amount is
\* smaller than its monthlyPayment or already 0: the balance goes down by
\* sum(monthlyPayment) (the salary of the same load apart), the principal of
\* such a debt goes down by its amount only and stays at 0, so the total
\* principal decrease is smaller than the debit; the debt goes on being
\* debited at every month end while it is in the list with a monthlyPayment
\* other than 0.
C34_DebitNotCapped ==
    [][(LoadStep /\ last'.debt) =>
         \A d \in {Loaded} :
            /\ Balance(data') =
                  Balance(d) - SumField(d.debts, "monthlyPayment")
                  + (IF last'.salary THEN Salary(d) ELSE 0)
            /\ Len(data'.debts) = Len(d.debts)
            /\ \A i \in 1..Len(d.debts) :
                  /\ data'.debts[i].monthlyPayment = d.debts[i].monthlyPayment
                  /\ d.debts[i].amount - data'.debts[i].amount = PrincipalPaid(d.debts[i])
                  /\ Underfunded(d.debts[i]) =>
                        /\ data'.debts[i].amount = 0
                        /\ PrincipalPaid(d.debts[i]) = d.debts[i].amount
            /\ (\E i \in 1..Len(d.debts) : Underfunded(d.debts[i])) =>
                  SumField(d.debts, "amount") - SumField(data'.debts, "amount")
                     < SumField(d.debts, "monthlyPayment")]_vars

\* C34 witness: the payment of January has run after that of December on a
\* debt of amount 0 that keeps its monthly payment of 2000, and the balance
\* went down by the payments of both debts, 7000, at that load
C34_Witness ==
    /\ last.op = "load" /\ last.debt /\ last.date.month = 1
    /\ data.metadata.last_debt_payment_month = MonthKey(today)
    /\ \E i \in 1..Len(data.debts) :
          /\ data.debts[i].id = "dbt1"
          /\ data.debts[i].amount = 0
          /\ data.debts[i].monthlyPayment = 2000
    /\ SumField(data.debts, "monthlyPayment") = 7000
    /\ SumField(data.debts, "amount") = 40000
    /\ Balance(data) = last.bal - 7000 + (IF last.salary THEN Salary(data) ELSE 0)

\* item `after` is item `before` with at most the field f changed or added
SameButField(before, after, f) ==
    /\ DOMAIN after \subseteq DOMAIN before \cup {f}
    /\ \A g \in DOMAIN before \ {f} : g \in DOMAIN after /\ after[g] = before[g]

\* the fields of an item whose update leaves every amount alone
PlainFields == {"name", "date", "monthlyPayment"}

\* C35: an authenticated Update(category, id, field, value) changes at most
\* the named field of the first item of that category whose id matches, plus
\* the amount of the balance item only when category is purchases or
\* one_time_inflow and field is 'amount'; every other item, every other
\* category and the metadata are unchanged, and an Update of name, date or
\* monthlyPayment never changes the balance.
C35_UpdateFrame ==
    [][(RequestStep /\ last'.op = "update" /\ last'.status = 200) =>
         LET category == last'.category
             field == last'.field
             i == IF IsListCategory(data, category)
                  THEN FirstIndex(data[category], last'.id) ELSE 0
             b == FindBalanceIndex(data)
             instant == category \in InstantCategories /\ field = "amount"
         IN /\ DOMAIN data' = DOMAIN data
            /\ \A c \in DOMAIN data \ {category, "income"} : data'[c] = data[c]
            /\ i = 0 => data' = data
            /\ i # 0 =>
                 /\ Len(data'[category]) = Len(data[category])
                 /\ \A j \in 1..Len(data[category]) :
                       IF j = i
                       THEN SameButField(data[category][j], data'[category][j], field)
                       ELSE data'[category][j] = data[category][j]
            /\ category # "income" =>
                 /\ Len(data'.income) = Len(data.income)
                 /\ \A j \in 1..Len(data.income) :
                       IF j = b /\ instant
                       THEN SameButField(data.income[j], data'.income[j], "amount")
                       ELSE data'.income[j] = data.income[j]
            /\ field \in PlainFields =>
                 /\ FindBalanceIndex(data') = b
                 /\ Balance(data') = Balance(data)]_vars

\* C35 witness: the second request of a run renamed a purchase, or set its
\* date or its monthlyPayment, and the balance is what it was before
C35_Witness ==
    /\ nreq = 2 /\ last.op = "update" /\ last.status = 200
    /\ last.category = "purchases" /\ last.field \in PlainFields
    /\ last.found /\ last.modified /\ last.hadBal
    /\ Balance(data) = last.bal

\* a step in which get_last_working_day was called and the salary block ran
\* on its result
CheckStep == last'.op = "check" /\ today' = today /\ last'.date = today

\* C36: get_last_working_day(year, month, n), n >= 1, ends for every month and
\* n; it never returns a date outside the given month: the date it returns is
\* the Monday-to-Friday day of the month from which exactly n such days
\* remain; it returns None exactly when the month has fewer than n
\* Monday-to-Friday days; and when the salary date is None the salary
\* trigger does not fire: the document, with its balance and its guard, and
\* the store stay as they are.
C36_LastWorkingDayBounds ==
    [][CheckStep =>
         LET year == today.year
             month == today.month
             n == last'.offset
             result == last'.result
             working == WorkingDays(year, month)
         IN /\ (result = NoDate) <=> (Cardinality(working) < n)
            /\ result # NoDate =>
                 /\ result.year = year /\ result.month = month
                 /\ result.day \in working
                 /\ Cardinality({e \in working : e >= result.day}) = n
            /\ result = NoDate =>
                 /\ ~last'.salary
                 /\ data' = data
                 /\ store' = store]_vars

\* C36 witness: on a day on or after the salary date of the month, with the
\* salary item and the balance item present and the salary not yet credited,
\* get_last_working_day was asked for more Monday-to-Friday days than the
\* month has, returned None, and the salary block did not credit
C36_Witness ==
    /\ last.op = "check" /\ last.date = today
    /\ last.result = NoDate /\ ~last.salary
    /\ last.offset > Cardinality(WorkingDays(today.year, today.month))
    /\ SalaryDatePassed(today) /\ HasSalaryAndBalance(data)
    /\ data.metadata.last_balance_update_month # MonthKey(today)
    /\ Balance(data) = last.bal

====
